---- MODULE Spec2Model ----
(***************************************************************************)
(* Earth System Model Visualization: the network view (graph builder,      *)
(* hit-testing, simulation/animation lifecycle) and the application state  *)
(* that drives it.                                                         *)
(*                                                                         *)
(* Conventions                                                             *)
(*  - A JavaScript string is a sequence of tokens (words and " " for white *)
(*    space), so that String.prototype.trim() is computed, not assumed.    *)
(*  - Fractional constants are kept as integers: radius10 is the radius in *)
(*    tenths of a pixel, strength10 a strength in tenths, CosMilli a       *)
(*    cosine in thousandths; node coordinates are rounded to whole pixels. *)
(*  - Display-only attributes (colours, descriptions, gradients) are not   *)
(*    part of the state.                                                   *)
(***************************************************************************)
EXTENDS Integers, Sequences, FiniteSets, TLC

(***************************************************************************)
(* Bounds of the model                                                     *)
(***************************************************************************)
MaxVars == 3

(***************************************************************************)
(* Generic helpers                                                         *)
(***************************************************************************)
Range(s) == {s[i] : i \in 1..Len(s)}

Min(a, b) == IF a < b THEN a ELSE b

Max(a, b) == IF a > b THEN a ELSE b

\* n / d rounded to the nearest integer (d > 0)
Round(n, d) == (2 * n + d) \div (2 * d)

\* a sequence given as a function, as an explicit tuple
Tuple(f) == f \o <<>>

\* [...new Set(seq)]: the distinct elements in order of first occurrence
RECURSIVE Dedup(_)
Dedup(s) ==
  IF s = <<>> THEN <<>>
  ELSE LET front == Dedup(SubSeq(s, 1, Len(s) - 1))
           last  == s[Len(s)]
       IN IF last \in Range(front) THEN front ELSE Append(front, last)

\* Array.prototype.flatMap over a sequence of sequences
RECURSIVE Flatten(_)
Flatten(ss) == IF ss = <<>> THEN <<>> ELSE Head(ss) \o Flatten(Tail(ss))

\* Array.prototype.findIndex, 1-based; 0 when no element satisfies Test
FindIndex(s, Test(_)) ==
  IF \E i \in 1..Len(s) : Test(s[i])
  THEN CHOOSE i \in 1..Len(s) : Test(s[i]) /\ \A j \in 1..(i - 1) : ~Test(s[j])
  ELSE 0

\* String.prototype.trim on a token string
RECURSIVE TrimLeft(_)
TrimLeft(s) == IF s # <<>> /\ Head(s) = " " THEN TrimLeft(Tail(s)) ELSE s

RECURSIVE TrimRight(_)
TrimRight(s) ==
  IF s # <<>> /\ s[Len(s)] = " " THEN TrimRight(SubSeq(s, 1, Len(s) - 1)) ELSE s

Trim(s) == TrimRight(TrimLeft(s))

\* Math.cos in thousandths, tabulated per whole degree
CosTable ==
  <<
     1000, 1000, 999, 999, 998, 996, 995, 993, 990, 988, 985, 982, 978, 974, 970, 966, 961, 956, 951, 946,
     940, 934, 927, 921, 914, 906, 899, 891, 883, 875, 866, 857, 848, 839, 829, 819, 809, 799, 788, 777,
     766, 755, 743, 731, 719, 707, 695, 682, 669, 656, 643, 629, 616, 602, 588, 574, 559, 545, 530, 515,
     500, 485, 469, 454, 438, 423, 407, 391, 375, 358, 342, 326, 309, 292, 276, 259, 242, 225, 208, 191,
     174, 156, 139, 122, 105, 87, 70, 52, 35, 17, 0, -17, -35, -52, -70, -87, -105, -122, -139, -156,
     -174, -191, -208, -225, -242, -259, -276, -292, -309, -326, -342, -358, -375, -391, -407, -423, -438, -454, -469, -485,
     -500, -515, -530, -545, -559, -574, -588, -602, -616, -629, -643, -656, -669, -682, -695, -707, -719, -731, -743, -755,
     -766, -777, -788, -799, -809, -819, -829, -839, -848, -857, -866, -875, -883, -891, -899, -906, -914, -921, -927, -934,
     -940, -946, -951, -956, -961, -966, -970, -974, -978, -982, -985, -988, -990, -993, -995, -996, -998, -999, -999, -1000,
     -1000, -1000, -999, -999, -998, -996, -995, -993, -990, -988, -985, -982, -978, -974, -970, -966, -961, -956, -951, -946,
     -940, -934, -927, -921, -914, -906, -899, -891, -883, -875, -866, -857, -848, -839, -829, -819, -809, -799, -788, -777,
     -766, -755, -743, -731, -719, -707, -695, -682, -669, -656, -643, -629, -616, -602, -588, -574, -559, -545, -530, -515,
     -500, -485, -469, -454, -438, -423, -407, -391, -375, -358, -342, -326, -309, -292, -276, -259, -242, -225, -208, -191,
     -174, -156, -139, -122, -105, -87, -70, -52, -35, -17, 0, 17, 35, 52, 70, 87, 105, 122, 139, 156,
     174, 191, 208, 225, 242, 259, 276, 292, 309, 326, 342, 358, 375, 391, 407, 423, 438, 454, 469, 485,
     500, 515, 530, 545, 559, 574, 588, 602, 616, 629, 643, 656, 669, 682, 695, 707, 719, 731, 743, 755,
     766, 777, 788, 799, 809, 819, 829, 839, 848, 857, 866, 875, 883, 891, 899, 906, 914, 921, 927, 934,
     940, 946, 951, 956, 961, 966, 970, 974, 978, 982, 985, 988, 990, 993, 995, 996, 998, 999, 999, 1000
  >>

CosMilli(deg) == CosTable[(deg % 360) + 1]

SinMilli(deg) == CosMilli(deg + 270)

(***************************************************************************)
(* Input catalogs: the variables and models handed to the network view     *)
(***************************************************************************)
M1 == <<"M1">>

M2 == <<"M2">>

CatA == <<"A">>

CatB == <<"B">>

Grace == <<"GRACE">>

Modis == <<"MODIS">>

\* the source name that never becomes a node
VariousSources == <<"Various", " ", "sources">>

CategoryNames == {CatA, CatB}

\* the values of variable.models and variable.sources (arrays after
\* DataManager.processData): untrimmed source entries, the empty name and
\* 'Various sources' occur
Provenances ==
  { [models |-> <<M1>>, sources |-> <<Grace>>],
    [models |-> <<M1, M2>>, sources |-> << <<" ">> \o Grace, Modis >>],
    [models |-> <<M2>>, sources |-> <<VariousSources, <<>>>>] }

\* the values of data.models; a variable may name a model that is not listed
ModelCatalogs == { <<[name |-> M1], [name |-> M2]>>, <<[name |-> M1]>> }

VarNameOf == <<"v1", "v2", "v3", "v4", "v5", "v6">>

VarShapes ==
  { [category |-> c, models |-> p.models, sources |-> p.sources] :
      c \in CategoryNames, p \in Provenances }

\* a Variable of the catalog; ids are unique (the position in data.variables)
MkVariable(i, shape) ==
  [id |-> i, variable |-> <<VarNameOf[i]>>, category |-> shape.category,
   models |-> shape.models, sources |-> shape.sources]

VariableLists ==
  UNION { { [i \in 1..n |-> MkVariable(i, f[i])] : f \in [1..n -> VarShapes] }
          : n \in 0..MaxVars }

\* Math.random() - 0.5 scaled to the angle (degrees) and radius (pixels)
\* variation of a source node: the extreme draws of both
Jitters == { [angle |-> -9, radius |-> -20], [angle |-> 8, radius |-> 19] }

SourceNames ==
  { Trim(s) : s \in UNION { Range(p.sources) : p \in Provenances } } \ { <<>>, VariousSources }

RandomDraws == [1..Cardinality(SourceNames) -> Jitters]

(***************************************************************************)
(* NetworkView.processData                                                 *)
(***************************************************************************)
NoNode == -1

\* nodeId++ : the id of a node created after `pushed` other nodes
PostIncrementReset(pushed) == IF pushed >= 2 THEN pushed - 2 ELSE pushed

PostIncrement(pushed) == pushed

\* angle (degrees) of slot `index` of `count` slots around a circle
Angle(index, count) == (360 * index) \div count

\* variable.sources as an array
SourcesOf(v) == v.sources

\* variable.models as an array
ModelsOf(v) == v.models

\* allSources: the trimmed source names in insertion order
AllSources(vars) ==
  Dedup(Flatten([i \in 1..Len(vars) |->
                   [j \in 1..Len(SourcesOf(vars[i])) |-> Trim(SourcesOf(vars[i])[j])]]))

KeepSource(source) == source # <<>> /\ source # VariousSources

SourceArray(vars) == SelectSeq(AllSources(vars), KeepSource)

CategoriesOfAll(vars) == [i \in 1..Len(vars) |-> vars[i].category]

CategoriesOf(vars) == Dedup([i \in 1..Len(vars) |-> vars[i].category])

VariablesOfCategory(vars, category) == SelectSeq(vars, LAMBDA v : v.category = category)

VariablesOfModel(vars, modelName) ==
  SelectSeq(vars, LAMBDA v : modelName \in Range(ModelsOf(v)))

VariablesOfSource(vars, source) ==
  SelectSeq(vars, LAMBDA v : \E j \in 1..Len(SourcesOf(v)) : Trim(SourcesOf(v)[j]) = source)

\* node radius (tenths of a pixel) by the number of associated variables
CategoryRadius10(count) == 400 + count * 12

ModelRadius10(count) == 250 + count * 8

SourceRadiusWrapped10(count) == 60 + ((count * 8) % 16)

SourceRadius10(count) == 60 + Min(count * 8, 80)

CategoryNodes(vars, w, h) ==
  LET categories == CategoriesOf(vars)
      categoryRadius == Round(Min(w, h) * 12, 100)
  IN Tuple([index \in 1..Len(categories) |->
        LET category == categories[index]
            angle == Angle(index - 1, Len(categories))
            categoryVariables == VariablesOfCategory(vars, category)
        IN [name |-> category, type |-> "category", vid |-> 0, category |-> <<>>,
            x |-> Round(w, 2) + Round(CosMilli(angle) * categoryRadius, 1000),
            y |-> Round(h, 2) + Round(SinMilli(angle) * categoryRadius, 1000),
            radius10 |-> CategoryRadius10(Len(categoryVariables)),
            variables |-> categoryVariables,
            variableCount |-> Len(categoryVariables)]])

VariableNodes(vars, w, h) ==
  LET catNodes == CategoryNodes(vars, w, h)
  IN Tuple([globalIndex \in 1..Len(vars) |->
        LET variable == vars[globalIndex]
            categoryNode ==
              catNodes[FindIndex(catNodes, LAMBDA n : n.name = variable.category)]
            categoryVariables == VariablesOfCategory(vars, variable.category)
            variableIndex ==
              FindIndex(categoryVariables, LAMBDA v : v.id = variable.id) - 1
            angle == Angle(variableIndex, Len(categoryVariables))
            distance10 == 1000 + Len(categoryVariables) * 15
        IN [name |-> variable.variable, type |-> "variable", vid |-> variable.id,
            category |-> variable.category,
            x |-> categoryNode.x + Round(CosMilli(angle) * distance10, 10000),
            y |-> categoryNode.y + Round(SinMilli(angle) * distance10, 10000),
            radius10 |-> 80,
            variables |-> <<>>,
            variableCount |-> 0]])

\* modelPositions, in hundredths of the width and height
ModelPositions ==
  << [x |-> 12, y |-> 15], [x |-> 88, y |-> 15], [x |-> 12, y |-> 85],
     [x |-> 88, y |-> 85], [x |-> 50, y |-> 5] >>

ModelNodes(vars, mods, w, h) ==
  Tuple([index \in 1..Len(mods) |->
     LET model == mods[index]
         position == IF index <= Len(ModelPositions) THEN ModelPositions[index]
                     ELSE [x |-> 50, y |-> 95]
         modelVariables == VariablesOfModel(vars, model.name)
     IN [name |-> model.name, type |-> "model", vid |-> 0, category |-> <<>>,
         x |-> Round(w * position.x, 100),
         y |-> Round(h * position.y, 100),
         radius10 |-> ModelRadius10(Len(modelVariables)),
         variables |-> modelVariables,
         variableCount |-> Len(modelVariables)]])

SourceSectors == 12

SourceNodes(vars, w, h, rnd) ==
  LET sourceArray == SourceArray(vars)
  IN Tuple([index \in 1..Len(sourceArray) |->
        LET source == sourceArray[index]
            sector == (index - 1) % SourceSectors
            angle == Angle(sector, SourceSectors) + rnd[index].angle
            radius == Round(Min(w, h) * 42, 100) + rnd[index].radius
            sourceVariables == VariablesOfSource(vars, source)
        IN [name |-> source, type |-> "source", vid |-> 0, category |-> <<>>,
            x |-> Round(w, 2) + Round(CosMilli(angle) * radius, 1000),
            y |-> Round(h, 2) + Round(SinMilli(angle) * radius, 1000),
            radius10 |-> SourceRadius10(Len(sourceVariables)),
            variables |-> sourceVariables,
            variableCount |-> Len(sourceVariables)]])

\* this.nodes with the model nodes displaced by a random draw
BuildNodesJittered(vars, mods, w, h, rnd) ==
  LET modelNodes == ModelNodes(vars, mods, w, h)
      pushed == CategoryNodes(vars, w, h) \o VariableNodes(vars, w, h)
                \o [k \in 1..Len(modelNodes) |->
                      [modelNodes[k] EXCEPT !.x = @ + rnd[1].radius]]
                \o SourceNodes(vars, w, h, rnd)
  IN Tuple([k \in 1..Len(pushed) |->
        [id |-> PostIncrement(k - 1)] @@ pushed[k]])

\* this.nodes: categories, variables, models, sources, ids given in push order
BuildNodes(vars, mods, w, h, rnd) ==
  LET pushed == CategoryNodes(vars, w, h) \o VariableNodes(vars, w, h)
                \o ModelNodes(vars, mods, w, h) \o SourceNodes(vars, w, h, rnd)
  IN Tuple([k \in 1..Len(pushed) |->
        [id |-> PostIncrement(k - 1)] @@ pushed[k]])

\* the key under which nodeMap holds a node
KeyOf(node) == IF node.type = "variable" THEN node.vid ELSE node.name

\* nodeMap.get(type + '_' + key): the index in ns of the node last set under
\* the key, 0 when the key is absent
MapGet(ns, type, key) ==
  LET hits == {i \in 1..Len(ns) : ns[i].type = type /\ KeyOf(ns[i]) = key}
  IN IF hits = {} THEN 0 ELSE CHOOSE i \in hits : \A j \in hits : j <= i

CategoryVariableLinksOnce(ns, vars) ==
  LET categories == CategoriesOf(vars)
  IN Flatten([c \in 1..Len(categories) |->
       LET first == FindIndex(vars, LAMBDA v : v.category = categories[c])
           variableNode == MapGet(ns, "variable", vars[first].id)
           categoryNode == MapGet(ns, "category", categories[c])
       IN << [source |-> ns[categoryNode].id, target |-> ns[variableNode].id,
              type |-> "category-variable", strength10 |-> 8, distance |-> 80] >>])

CategoryVariableLinks(ns, vars) ==
  Flatten([i \in 1..Len(vars) |->
    LET variableNode == MapGet(ns, "variable", vars[i].id)
        categoryNode == MapGet(ns, "category", vars[i].category)
    IN IF variableNode # 0 /\ categoryNode # 0
       THEN << [source |-> ns[categoryNode].id, target |-> ns[variableNode].id,
                type |-> "category-variable", strength10 |-> 8, distance |-> 80] >>
       ELSE <<>>])

VariableModelLinksOfStrict(ns, variable) ==
  LET variableNode == MapGet(ns, "variable", variable.id)
      variableModels == ModelsOf(variable)
  IN IF \E j \in 1..Len(variableModels) : MapGet(ns, "model", variableModels[j]) = 0
     THEN <<>>
     ELSE [j \in 1..Len(variableModels) |->
            [source |-> ns[variableNode].id,
             target |-> ns[MapGet(ns, "model", variableModels[j])].id,
             type |-> "variable-model", strength10 |-> 4, distance |-> 150]]

VariableModelLinksOf(ns, variable) ==
  LET variableNode == MapGet(ns, "variable", variable.id)
      variableModels == ModelsOf(variable)
  IN Flatten([j \in 1..Len(variableModels) |->
       LET modelNode == MapGet(ns, "model", variableModels[j])
       IN IF variableNode # 0 /\ modelNode # 0
          THEN << [source |-> ns[variableNode].id, target |-> ns[modelNode].id,
                   type |-> "variable-model", strength10 |-> 4, distance |-> 150] >>
          ELSE <<>>])

VariableModelLinksPerModel(ns, vars) ==
  LET modelNodes == SelectSeq(ns, LAMBDA n : n.type = "model")
  IN Flatten([m \in 1..Len(modelNodes) |->
       LET first == FindIndex(vars, LAMBDA v : modelNodes[m].name \in Range(ModelsOf(v)))
       IN IF first = 0 THEN <<>>
          ELSE << [source |-> ns[MapGet(ns, "variable", vars[first].id)].id,
                   target |-> modelNodes[m].id,
                   type |-> "variable-model", strength10 |-> 4, distance |-> 150] >>])

VariableModelLinks(ns, vars) ==
  Flatten([i \in 1..Len(vars) |-> VariableModelLinksOf(ns, vars[i])])

VariableSourceLinksOfUntrimmed(ns, variable) ==
  LET variableNode == MapGet(ns, "variable", variable.id)
      sources == SourcesOf(variable)
  IN Flatten([j \in 1..Len(sources) |->
       LET sourceNode == MapGet(ns, "source", sources[j])
       IN IF variableNode # 0 /\ sourceNode # 0 /\ sources[j] # VariousSources
          THEN << [source |-> ns[variableNode].id, target |-> ns[sourceNode].id,
                   type |-> "variable-source", strength10 |-> 2, distance |-> 120] >>
          ELSE <<>>])

VariableSourceLinksOf(ns, variable) ==
  LET variableNode == MapGet(ns, "variable", variable.id)
      sources == SourcesOf(variable)
  IN Flatten([j \in 1..Len(sources) |->
       LET sourceNode == MapGet(ns, "source", Trim(sources[j]))
       IN IF variableNode # 0 /\ sourceNode # 0 /\ Trim(sources[j]) # VariousSources
          THEN << [source |-> ns[variableNode].id, target |-> ns[sourceNode].id,
                   type |-> "variable-source", strength10 |-> 2, distance |-> 120] >>
          ELSE <<>>])

VariableSourceLinks(ns, vars) ==
  Flatten([i \in 1..Len(vars) |-> VariableSourceLinksOf(ns, vars[i])])

BuildLinks(ns, vars) ==
  CategoryVariableLinks(ns, vars) \o VariableModelLinks(ns, vars)
  \o VariableSourceLinks(ns, vars)

\* processData(variables, models): the node and link arrays it leaves
ProcessData(vars, mods, w, h, rnd) ==
  LET ns == BuildNodes(vars, mods, w, h, rnd)
  IN [nodes |-> ns, links |-> BuildLinks(ns, vars)]

(***************************************************************************)
(* NetworkView.processSimpleData                                           *)
(***************************************************************************)
SimpleCategories ==
  << [name |-> <<"Ocean">>, variables |-> 10],
     [name |-> <<"Land">>, variables |-> 10],
     [name |-> <<"Atmosphere">>, variables |-> 8],
     [name |-> <<"Carbon Cycle">>, variables |-> 10],
     [name |-> <<"Climate">>, variables |-> 6] >>

SimpleMissions ==
  << [name |-> <<"GRACE/GRACE-FO">>, category |-> <<"Ocean">>],
     [name |-> <<"JASON/TOPEX">>, category |-> <<"Ocean">>],
     [name |-> <<"ICESat">>, category |-> <<"Ocean">>],
     [name |-> <<"GPS">>, category |-> <<"Land">>],
     [name |-> <<"MODIS">>, category |-> <<"Land">>],
     [name |-> <<"TROPOMI/OMI">>, category |-> <<"Atmosphere">>],
     [name |-> <<"MOPITT">>, category |-> <<"Atmosphere">>],
     [name |-> <<"OCO-2/GOSAT">>, category |-> <<"Carbon Cycle">>],
     [name |-> <<"GFED">>, category |-> <<"Carbon Cycle">>],
     [name |-> <<"ERA5/GEOS">>, category |-> <<"Climate">>] >>

SimpleModels ==
  << <<"ECCO">>, <<"ISSM">>, <<"CARDAMOM">>, <<"CMS-FLUX">>, <<"MOMO-CHEM">> >>

\* relationships: <<from type, from name, to type, to name>>
SimpleRelationships ==
  << <<"category", <<"Ocean">>, "mission", <<"GRACE/GRACE-FO">> >>,
     <<"category", <<"Ocean">>, "mission", <<"JASON/TOPEX">> >>,
     <<"category", <<"Ocean">>, "mission", <<"ICESat">> >>,
     <<"category", <<"Land">>, "mission", <<"GPS">> >>,
     <<"category", <<"Land">>, "mission", <<"MODIS">> >>,
     <<"category", <<"Land">>, "mission", <<"GRACE/GRACE-FO">> >>,
     <<"category", <<"Atmosphere">>, "mission", <<"TROPOMI/OMI">> >>,
     <<"category", <<"Atmosphere">>, "mission", <<"MOPITT">> >>,
     <<"category", <<"Carbon Cycle">>, "mission", <<"OCO-2/GOSAT">> >>,
     <<"category", <<"Carbon Cycle">>, "mission", <<"GFED">> >>,
     <<"category", <<"Carbon Cycle">>, "mission", <<"MOPITT">> >>,
     <<"category", <<"Climate">>, "mission", <<"ERA5/GEOS">> >>,
     <<"mission", <<"GRACE/GRACE-FO">>, "model", <<"ECCO">> >>,
     <<"mission", <<"GRACE/GRACE-FO">>, "model", <<"ISSM">> >>,
     <<"mission", <<"GRACE/GRACE-FO">>, "model", <<"CARDAMOM">> >>,
     <<"mission", <<"JASON/TOPEX">>, "model", <<"ECCO">> >>,
     <<"mission", <<"ICESat">>, "model", <<"ECCO">> >>,
     <<"mission", <<"ICESat">>, "model", <<"CARDAMOM">> >>,
     <<"mission", <<"GPS">>, "model", <<"ISSM">> >>,
     <<"mission", <<"MODIS">>, "model", <<"ISSM">> >>,
     <<"mission", <<"MODIS">>, "model", <<"CARDAMOM">> >>,
     <<"mission", <<"TROPOMI/OMI">>, "model", <<"CMS-FLUX">> >>,
     <<"mission", <<"TROPOMI/OMI">>, "model", <<"MOMO-CHEM">> >>,
     <<"mission", <<"MOPITT">>, "model", <<"CMS-FLUX">> >>,
     <<"mission", <<"MOPITT">>, "model", <<"MOMO-CHEM">> >>,
     <<"mission", <<"MOPITT">>, "model", <<"CARDAMOM">> >>,
     <<"mission", <<"OCO-2/GOSAT">>, "model", <<"CARDAMOM">> >>,
     <<"mission", <<"OCO-2/GOSAT">>, "model", <<"CMS-FLUX">> >>,
     <<"mission", <<"GFED">>, "model", <<"CMS-FLUX">> >>,
     <<"mission", <<"ERA5/GEOS">>, "model", <<"CMS-FLUX">> >>,
     <<"mission", <<"ERA5/GEOS">>, "model", <<"MOMO-CHEM">> >>,
     <<"mission", <<"ERA5/GEOS">>, "model", <<"ISSM">> >> >>

\* a ring of nodes around the centre of the canvas
SimpleRing(names, type, categories, radii10, counts, w, h, ringHundredths) ==
  LET ringRadius == Round(Min(w, h) * ringHundredths, 100)
  IN [index \in 1..Len(names) |->
        LET angle == Angle(index - 1, Len(names))
        IN [name |-> names[index], type |-> type, vid |-> 0,
            category |-> categories[index],
            x |-> Round(w, 2) + Round(CosMilli(angle) * ringRadius, 1000),
            y |-> Round(h, 2) + Round(SinMilli(angle) * ringRadius, 1000),
            radius10 |-> radii10[index],
            variables |-> <<>>,
            variableCount |-> counts[index]]]

SimpleNodes(w, h) ==
  LET nc == Len(SimpleCategories)
      nm == Len(SimpleMissions)
      nd == Len(SimpleModels)
      pushed ==
        SimpleRing([i \in 1..nc |-> SimpleCategories[i].name], "category",
                   [i \in 1..nc |-> <<>>],
                   [i \in 1..nc |-> 750 + SimpleCategories[i].variables * 20],
                   [i \in 1..nc |-> SimpleCategories[i].variables], w, h, 12)
        \o SimpleRing([i \in 1..nm |-> SimpleMissions[i].name], "mission",
                      [i \in 1..nm |-> SimpleMissions[i].category],
                      [i \in 1..nm |-> 280], [i \in 1..nm |-> 0], w, h, 25)
        \o SimpleRing(SimpleModels, "model", [i \in 1..nd |-> <<>>],
                      [i \in 1..nd |-> 400], [i \in 1..nd |-> 0], w, h, 38)
  IN Tuple([k \in 1..Len(pushed) |-> [id |-> PostIncrement(k - 1)] @@ pushed[k]])

SimpleLinks(ns) ==
  Flatten([r \in 1..Len(SimpleRelationships) |->
    LET rel == SimpleRelationships[r]
        sourceNode == MapGet(ns, rel[1], rel[2])
        targetNode == MapGet(ns, rel[3], rel[4])
        hierarchical == rel[1] = "category"
    IN IF sourceNode # 0 /\ targetNode # 0
       THEN << [source |-> ns[sourceNode].id, target |-> ns[targetNode].id,
                type |-> rel[1] \o "-" \o rel[3],
                strength10 |-> IF hierarchical THEN 8 ELSE 6,
                distance |-> IF hierarchical THEN 100 ELSE 150] >>
       ELSE <<>>])

ProcessSimpleData(w, h) ==
  LET ns == SimpleNodes(w, h)
  IN [nodes |-> ns, links |-> SimpleLinks(ns)]

(***************************************************************************)
(* NetworkView.getNodeAt                                                   *)
(***************************************************************************)
\* const radius = 20
HitRadius == 20

\* Math.sqrt(dx * dx + dy * dy) < radius, on whole pixels: the square root
\* is below the radius exactly when the squared distance is below its square
WithinHitRadius(node, px, py) ==
  (node.x - px) * (node.x - px) + (node.y - py) * (node.y - py)
    < HitRadius * HitRadius

\* this.nodes.find(...): the index of the first node in range, 0 for undefined
GetNodeAtLast(ns, px, py) ==
  LET hits == {i \in 1..Len(ns) : WithinHitRadius(ns[i], px, py)}
  IN IF hits = {} THEN 0 ELSE CHOOSE i \in hits : \A j \in hits : j <= i

GetNodeAt(ns, px, py) == FindIndex(ns, LAMBDA node : WithinHitRadius(node, px, py))

(***************************************************************************)
(* DataManager.filterData (model filter; the search query is a token       *)
(* string matched against the variable's search text)                      *)
(***************************************************************************)
All == <<"all">>

EmptyString == <<>>

\* Array.prototype.join(' ')
RECURSIVE JoinSpace(_)
JoinSpace(ss) ==
  IF ss = <<>> THEN <<>>
  ELSE IF Len(ss) = 1 THEN ss[1]
  ELSE ss[1] \o <<" ">> \o JoinSpace(Tail(ss))

LowerToken(t) ==
  CASE t = "GRACE" -> "grace" [] t = "MODIS" -> "modis" [] t = "M1" -> "m1"
    [] t = "M2" -> "m2" [] t = "A" -> "a" [] t = "B" -> "b"
    [] t = "Various" -> "various" [] OTHER -> t

\* String.prototype.toLowerCase
ToLowerCase(s) == [i \in 1..Len(s) |-> LowerToken(s[i])]

\* String.prototype.includes
Includes(text, query) ==
  \E i \in 1..(Len(text) + 1) :
    /\ i + Len(query) - 1 <= Len(text)
    /\ SubSeq(text, i, i + Len(query) - 1) = query

\* createSearchText; description and units are empty in the modelled catalog
CreateSearchText(v) ==
  ToLowerCase(JoinSpace(<< v.variable, v.category, JoinSpace(v.sources),
                           JoinSpace(v.models), EmptyString, EmptyString >>))

\* filterData without the trim() of the query
FilterDataUntrimmed(variables, modelFilter, searchQuery) ==
  LET byModel ==
        IF modelFilter # EmptyString /\ modelFilter # All
        THEN SelectSeq(variables, LAMBDA v : modelFilter \in Range(ModelsOf(v)))
        ELSE variables
  IN IF searchQuery # EmptyString /\ Trim(searchQuery) # EmptyString
     THEN SelectSeq(byModel,
            LAMBDA v : Includes(CreateSearchText(v), ToLowerCase(searchQuery)))
     ELSE byModel

FilterData(variables, modelFilter, searchQuery) ==
  LET byModel ==
        IF modelFilter # EmptyString /\ modelFilter # All
        THEN SelectSeq(variables, LAMBDA v : modelFilter \in Range(ModelsOf(v)))
        ELSE variables
  IN IF searchQuery # EmptyString /\ Trim(searchQuery) # EmptyString
     THEN SelectSeq(byModel,
            LAMBDA v : Includes(CreateSearchText(v), Trim(ToLowerCase(searchQuery))))
     ELSE byModel

(***************************************************************************)
(* DataManager.sortData                                                    *)
(***************************************************************************)
\* the collation rank of a token under String.prototype.localeCompare
LocaleRank(t) ==
  CASE t = " " -> 1 [] t = "," -> 2
    [] t = "A" -> 11 [] t = "B" -> 12
    [] t = "M1" -> 21 [] t = "M2" -> 22
    [] t = "v1" -> 31 [] t = "v2" -> 32 [] t = "v3" -> 33
    [] t = "v4" -> 34 [] t = "v5" -> 35 [] t = "v6" -> 36
    [] OTHER -> 99

\* a.localeCompare(b) on token strings: negative, zero or positive
RECURSIVE LocaleCompare(_, _)
LocaleCompare(a, b) ==
  IF a = <<>> /\ b = <<>> THEN 0
  ELSE IF a = <<>> THEN -1
  ELSE IF b = <<>> THEN 1
  ELSE IF LocaleRank(Head(a)) # LocaleRank(Head(b))
       THEN LocaleRank(Head(a)) - LocaleRank(Head(b))
       ELSE LocaleCompare(Tail(a), Tail(b))

\* Array.prototype.join(', ')
RECURSIVE JoinComma(_)
JoinComma(ss) ==
  IF ss = <<>> THEN <<>>
  ELSE IF Len(ss) = 1 THEN ss[1]
  ELSE ss[1] \o <<",", " ">> \o JoinComma(Tail(ss))

\* the compare function sortData hands to Array.prototype.sort
SortCompare(sortBy, a, b) ==
  CASE sortBy = "variable" -> LocaleCompare(a.variable, b.variable)
    [] sortBy = "category" ->
         IF LocaleCompare(a.category, b.category) # 0
         THEN LocaleCompare(a.category, b.category)
         ELSE LocaleCompare(a.variable, b.variable)
    [] sortBy = "model" ->
         LocaleCompare(JoinComma(ModelsOf(a)), JoinComma(ModelsOf(b)))
    [] OTHER -> 0

\* Array.prototype.sort(compare), which is stable: the element at index i
\* moves behind the elements that compare lower and the equal ones before it
SortedBy(arr, sortBy) ==
  LET n == Len(arr)
      place(i) ==
        1 + Cardinality({ j \in 1..n :
              \/ SortCompare(sortBy, arr[j], arr[i]) < 0
              \/ (SortCompare(sortBy, arr[j], arr[i]) = 0 /\ j < i) })
  IN Tuple([p \in 1..n |-> arr[CHOOSE i \in 1..n : place(i) = p]])

KnownSortKeys == {"variable", "category", "model"}

\* sortData(variables, sortBy): the array it was given as it is after the
\* call, and the array it returns
SortDataInPlace(variables, sortBy) ==
  LET sorted == IF sortBy \in KnownSortKeys THEN SortedBy(variables, sortBy)
                ELSE variables
  IN [argument |-> sorted, result |-> sorted]

SortData(variables, sortBy) ==
  LET copy == variables
      sorted == IF sortBy \in KnownSortKeys THEN SortedBy(copy, sortBy) ELSE copy
  IN [argument |-> variables, result |-> sorted]

(***************************************************************************)
(* DataManager: documents, validateData, processData, loadFallbackData     *)
(***************************************************************************)
\* String.prototype.split(/[,;]\s*/) on a token string
RECURSIVE SplitFrom(_, _)
SplitFrom(s, current) ==
  IF s = <<>> THEN << current >>
  ELSE IF Head(s) \in {",", ";"}
       THEN << current >> \o SplitFrom(TrimLeft(Tail(s)), <<>>)
       ELSE SplitFrom(Tail(s), Append(current, Head(s)))

Split(s) == SplitFrom(s, <<>>)

\* the models / sources field of a variable as it stands in the JSON file
ArrayField(a) == [kind |-> "array", value |-> a]

StringField(str) == [kind |-> "string", value |-> str]

UndefinedField == [kind |-> "undefined", value |-> <<>>]

RawVariable(i, category, modelsField, sourcesField) ==
  [id |-> i, variable |-> <<VarNameOf[i]>>, category |-> category,
   models |-> modelsField, sources |-> sourcesField]

ArrayOf(items) == [isArray |-> TRUE, items |-> items]

NotAnArray == [isArray |-> FALSE, items |-> <<>>]

\* the JSON documents the data URL may deliver
GoodDocument ==
  [isObject |-> TRUE, version |-> <<"1.0.0">>,
   variables |-> ArrayOf(
     << RawVariable(1, CatA, ArrayField(<<M1>>), ArrayField(<<Grace>>)),
        RawVariable(2, CatB, StringField(<<"M1", ",", " ", "M2">>),
                    StringField(<<"GRACE", ";", "MODIS">>)) >>),
   models |-> ArrayOf(<< [name |-> M1], [name |-> M2] >>),
   categories |-> ArrayOf(<< [name |-> CatA], [name |-> CatB] >>)]

NullDocument ==
  [isObject |-> FALSE, version |-> <<>>, variables |-> NotAnArray,
   models |-> NotAnArray, categories |-> NotAnArray]

Documents ==
  { GoodDocument,
    NullDocument,
    [GoodDocument EXCEPT !.variables = NotAnArray],
    [GoodDocument EXCEPT !.variables = ArrayOf(<<>>)],
    [GoodDocument EXCEPT !.models = ArrayOf(<<>>)],
    [GoodDocument EXCEPT !.categories = NotAnArray],
    [GoodDocument EXCEPT !.categories = ArrayOf(<<>>)],
    [GoodDocument EXCEPT !.variables = ArrayOf(
       << RawVariable(1, CatA, UndefinedField, ArrayField(<<Grace>>)) >>)] }

\* how the fetch of the data URL may settle
NoDocument == NullDocument

FetchResponses ==
  { [kind |-> k, doc |-> NoDocument] : k \in {"reject", "httpError", "badJson"} }
  \cup { [kind |-> "json", doc |-> d] : d \in Documents }

\* validateData(data) throws
ValidateDataThrows(doc) ==
  \/ ~doc.isObject
  \/ ~doc.variables.isArray \/ ~doc.models.isArray \/ ~doc.categories.isArray
  \/ Len(doc.variables.items) = 0
  \/ Len(doc.models.items) = 0

\* Array.isArray(field) ? field : field.split(/[,;]\s*/)
AsArray(field) == IF field.kind = "array" THEN field.value ELSE Split(field.value)

\* DataManager.processData(data): [threw, data]; variable.models.split
\* throws on a field that is neither an array nor a string. searchText is
\* CreateSearchText of the variable and is computed where it is read.
DmProcessData(doc) ==
  LET raw == doc.variables.items
      bad == ~doc.isObject \/ ~doc.models.isArray \/ ~doc.categories.isArray
             \/ ~doc.variables.isArray
             \/ \E i \in 1..Len(raw) : raw[i].models.kind = "undefined"
                                       \/ raw[i].sources.kind = "undefined"
  IN IF bad THEN [threw |-> TRUE, data |-> [version |-> <<>>, variables |-> <<>>,
                                           models |-> <<>>, totalVariables |-> 0]]
     ELSE [threw |-> FALSE,
           data |-> [version |-> doc.version,
                     variables |-> Tuple([i \in 1..Len(raw) |->
                        [id |-> raw[i].id, variable |-> raw[i].variable,
                         category |-> raw[i].category,
                         models |-> AsArray(raw[i].models),
                         sources |-> AsArray(raw[i].sources)]]),
                     models |-> doc.models.items,
                     totalVariables |-> Len(raw)]]

\* the fallback dataset of loadFallbackData: two models, two categories, five
\* variables, version "1.0.0-fallback"
Ecco == <<"ECCO">>

Issm == <<"ISSM">>

FallbackVersion == <<"1.0.0-", "fallback">>

FallbackDataNoCategories ==
  [isObject |-> TRUE, version |-> FallbackVersion, variables |-> ArrayOf(<<>>),
   models |-> ArrayOf(<< [name |-> Ecco], [name |-> Issm] >>),
   categories |-> NotAnArray]

FallbackData ==
  [isObject |-> TRUE, version |-> FallbackVersion,
   variables |-> ArrayOf(
     << RawVariable(1, <<"Ocean">>, ArrayField(<<Ecco>>),
                    ArrayField(<< <<"JASON-3">>, <<"Sentinel-6">> >>)),
        RawVariable(2, <<"Ocean">>, ArrayField(<<Ecco>>),
                    ArrayField(<< <<"MODIS">>, <<"VIIRS">> >>)),
        RawVariable(3, <<"Land">>, ArrayField(<<Issm>>),
                    ArrayField(<< <<"Landsat">>, <<"Sentinel-1">> >>)),
        RawVariable(4, <<"Land">>, ArrayField(<<Issm>>),
                    ArrayField(<< <<"ICESat-2">> >>)),
        RawVariable(5, <<"Land">>, ArrayField(<<Issm>>),
                    ArrayField(<< <<"Tide", " ", "Gauge">> >>)) >>),
   models |-> ArrayOf(<< [name |-> Ecco], [name |-> Issm] >>),
   categories |-> ArrayOf(<< [name |-> <<"Ocean">>], [name |-> <<"Land">>] >>)]

\* loadFallbackData(): processData(fallbackData)
LoadFallbackData == DmProcessData(FallbackData)

\* the try block of loadData after the fetch has settled: [threw, data]
TryLoad(response) ==
  IF response.kind # "json" \/ ValidateDataThrows(response.doc)
  THEN [threw |-> TRUE, data |-> LoadFallbackData.data]
  ELSE DmProcessData(response.doc)

\* why the try block of loadData threw, "none" when it did not
FailureOf(response) ==
  IF response.kind # "json" THEN response.kind
  ELSE IF ValidateDataThrows(response.doc) THEN "invalid"
  ELSE IF DmProcessData(response.doc).threw THEN "unprocessable"
  ELSE "none"

\* a processData that would hand out the object it returned before
NewObjectReused(h) == IF h = <<>> THEN 1 ELSE Len(h)

\* the identity of the object processData returns: every call builds a new
\* object literal, the next one of the heap
NewObject(h) == Len(h) + 1

\* a loadData that would also cache what loadFallbackData() returns
CacheAfterLoadAlways(c, loaded, object) == [has |-> TRUE, obj |-> object]

\* the cache after loadData has run to its end: this.cache.set('mainData',
\* processedData) is the last statement of the try block, the catch block
\* does not touch the cache
CacheAfterLoad(c, loaded, object) ==
  IF loaded THEN [has |-> TRUE, obj |-> object] ELSE c

\* this.cache.has('mainData')
CacheHitNever(c) == FALSE

CacheHit(c) == c.has

(***************************************************************************)
(* ModalManager: show, close and their timers                              *)
(***************************************************************************)
\* the ModalManager constructor with init(): the modal element is hidden;
\* keyboardHandler tells whether EarthSystemViz.handleKeyboard is registered,
\* lastOp which of show() and close() was called last
ModalNew ==
  [isOpen |-> FALSE, display |-> "none", ariaHidden |-> TRUE,
   openClass |-> FALSE, openTimers |-> 0, closeTimers |-> 0, shows |-> 0,
   lastClose |-> "none", lastOp |-> "none", keyboardHandler |-> TRUE]

\* show(title, content): arms the 10 ms timer that adds 'modal-open'
MmShow(m) ==
  [m EXCEPT !.display = "flex", !.ariaHidden = FALSE, !.isOpen = TRUE,
            !.openTimers = @ + 1, !.shows = @ + 1, !.lastOp = "show"]

\* the 10 ms timer of show()
MmOpenTimer(m) == [m EXCEPT !.openClass = TRUE, !.openTimers = @ - 1]

\* close() called on behalf of `cause`: arms the 300 ms timer
MmCloseNoTimer(m, cause) ==
  IF ~m.isOpen THEN [m EXCEPT !.lastOp = "close"]
  ELSE [m EXCEPT !.openClass = FALSE, !.lastClose = cause, !.lastOp = "close"]

MmClose(m, cause) ==
  IF ~m.isOpen THEN [m EXCEPT !.lastOp = "close"]
  ELSE [m EXCEPT !.openClass = FALSE, !.closeTimers = @ + 1, !.lastClose = cause,
                 !.lastOp = "close"]

\* the 300 ms timer of close()
MmCloseTimer(m) ==
  [m EXCEPT !.display = "none", !.ariaHidden = TRUE, !.isOpen = FALSE,
            !.closeTimers = @ - 1]

\* ModalManager.destroy(): close(); the removeEventListener calls pass null
\* and remove nothing
MmDestroy(m) == MmClose(m, "destroy")

(***************************************************************************)
(* DevServer: the development server's request handler                     *)
(***************************************************************************)
\* A path is the sequence of its segments: "/scripts/app.js" is
\* <<"scripts", "app.js">> and "/" is <<>>.  File-system paths are absolute.

\* the longest request pathname, in segments
MaxSegments == 3

\* the segments request pathnames are made of
RequestSegments ==
  {"..", "scripts", "app.js", "index.html", "package.json", "dev-reload"}

RequestPaths == UNION { [1..n -> RequestSegments] : n \in 0..MaxSegments }

\* this.srcDir = path.join(__dirname, '..', 'src')
SrcDir == <<"repo", "src">>

\* the disk: the project directory with the served src directory in it
Directories ==
  { <<>>, <<"repo">>, <<"repo", "src">>, <<"repo", "src", "scripts">> }

Files ==
  { <<"repo", "package.json">>,
    <<"repo", "src", "index.html">>,
    <<"repo", "src", "scripts", "app.js">> }

\* fs.access / fs.pathExists
PathExists(p) == p \in Files \cup Directories

\* path.normalize on an absolute path: '.' is dropped, '..' removes the
\* segment before it and is dropped at the root
RECURSIVE Normalize(_, _)
Normalize(done, rest) ==
  IF rest = <<>> THEN done
  ELSE IF Head(rest) = "." THEN Normalize(done, Tail(rest))
  ELSE IF Head(rest) = ".."
       THEN Normalize(IF done = <<>> THEN <<>> ELSE SubSeq(done, 1, Len(done) - 1),
                      Tail(rest))
  ELSE Normalize(Append(done, Head(rest)), Tail(rest))

\* path.join(a, b): the segments joined, then normalized
PathJoin(a, b) == Normalize(<<>>, a \o b)

\* the server before any request
ServerNew ==
  [request |-> <<"-">>, status |-> 0, kind |-> "none", path |-> <<>>]

\* serveFile(filePath, res): readFile fails on a directory, which is the
\* 500 answer
ServeFile(request, filePath) ==
  IF filePath \in Files
  THEN [request |-> request, status |-> 200, kind |-> "file", path |-> filePath]
  ELSE [request |-> request, status |-> 500, kind |-> "error", path |-> <<>>]

\* serveDirectoryListing(dirPath, res, urlPath)
ServeDirectoryListing(request, dirPath) ==
  [request |-> request, status |-> 200, kind |-> "listing", path |-> dirPath]

\* serve404(res, filePath)
Serve404(request) ==
  [request |-> request, status |-> 404, kind |-> "notFound", path |-> <<>>]

\* handleLiveReload(req, res): the event stream
HandleLiveReload(request) ==
  [request |-> request, status |-> 200, kind |-> "eventStream", path |-> <<>>]

\* handleRequest(req, res) for the request pathname, as the answer it sends
HandleRequest(pathname) ==
  LET filePath == IF pathname = <<>> THEN <<"index.html">> ELSE pathname
      fullPath == PathJoin(SrcDir, filePath)
      indexPath == PathJoin(fullPath, <<"index.html">>)
  IN IF filePath = <<"dev-reload">> THEN HandleLiveReload(pathname)
     ELSE IF ~PathExists(fullPath) THEN Serve404(pathname)
     ELSE IF fullPath \in Directories
          THEN IF PathExists(indexPath)
               THEN ServeFile(pathname, indexPath)
               ELSE ServeDirectoryListing(pathname, fullPath)
     ELSE ServeFile(pathname, fullPath)

\* the model cards of the page, by their data-model, before any handler has
\* toggled their 'selected' class
CardsNew == [model \in {M1, M2} |-> FALSE]

(***************************************************************************)
(* State                                                                   *)
(***************************************************************************)
VARIABLES
  data,              \* EarthSystemViz.data: [isNull, variables, models]
  filteredData,      \* EarthSystemViz.filteredData: [isNull, items]
  currentFilter,     \* EarthSystemViz.currentFilter
  currentSearch,     \* EarthSystemViz.currentSearch
  currentView,       \* EarthSystemViz.currentView
  initTimers,        \* pending setTimeout callbacks of switchView
  canvas,            \* NetworkView.canvas / context are set
  sims,              \* the d3 simulations created so far, "running" or
                     \* "stopped"; this.simulation is the last one
  animationRunning,  \* NetworkView.animationRunning
  pendingFrames,     \* requestAnimationFrame callbacks not yet run
  listeners,         \* listeners registered on the canvas: [type, fn]
  nodes,             \* NetworkView.nodes
  links,             \* NetworkView.links
  width,             \* NetworkView.width
  height,            \* NetworkView.height
  tooltip,           \* the node tooltip is displayed
  pointer,           \* the coordinates handed to the last getNodeAt call
  hit,               \* what that call returned: a node id, or NoNode
  lastEvent,         \* the event or callback handled by the last step
  lastCall,          \* the NetworkView operation that step reached
  quiet,             \* destroy() has run and init() has not run since
  d3Defined,         \* the global d3 exists (the library has been loaded)
  constructed,       \* new NetworkView() has returned an instance
  thrown,            \* the last call ended with an exception
  cache,             \* DataManager.cache: [has, obj] for the key 'mainData'
  heap,              \* the data objects created so far; an object's
                     \* identity is its index
  fetchCalls,        \* number of fetch() calls made so far
  loads,             \* the loadData() calls made so far, in call order
  clears,            \* number of clearCache() calls made so far
  modal,             \* ModalManager and its modal element (see ModalNew)
  query,             \* the last filterData / sortData call: its parameters,
                     \* the array it was given as it is after the call, and
                     \* the array it returned
  server,            \* DevServer: the last request and the answer it got
  cards              \* the model cards: whether each has the class 'selected'

vars ==
  << data, filteredData, currentFilter, currentSearch, currentView, initTimers,
     canvas, sims, animationRunning, pendingFrames, listeners, nodes, links,
     width, height, tooltip, pointer, hit, lastEvent, lastCall, quiet,
     d3Defined, constructed, thrown, cache, heap, fetchCalls, loads, clears,
     modal, query, server, cards >>

appVars == << data, filteredData, currentFilter, currentSearch, currentView, initTimers >>

graphVars == << nodes, links, width, height >>

loopVars == << sims, animationRunning, pendingFrames >>

\* the environment and the construction of the NetworkView
envVars == << d3Defined, constructed, thrown >>

\* the state outside the application and its network view
\* the DataManager
dmVars == << cache, heap, fetchCalls, loads, clears >>

\* what the application's handlers leave alone, the model cards excepted
restVars == << envVars, dmVars, modal, query, server >>

extVars == << restVars, cards >>

\* the network view's own state
viewVars ==
  << canvas, loopVars, listeners, graphVars, tooltip, pointer, hit, quiet >>

NullData == [isNull |-> TRUE, variables |-> <<>>, models |-> <<>>]

NullList == [isNull |-> TRUE, items |-> <<>>]

\* the NetworkView constructor
NetworkViewNew ==
  /\ canvas = FALSE
  /\ sims = <<>>
  /\ animationRunning = FALSE
  /\ pendingFrames = 0
  /\ listeners = <<>>
  /\ nodes = <<>>
  /\ links = <<>>
  /\ width = 800
  /\ height = 600
  /\ tooltip = FALSE
  /\ pointer = [x |-> 0, y |-> 0]
  /\ hit = NoNode
  /\ quiet = FALSE

\* the DataManager constructor
DataManagerNew ==
  /\ cache = [has |-> FALSE, obj |-> 0]
  /\ heap = <<>>
  /\ fetchCalls = 0
  /\ loads = <<>>
  /\ clears = 0

\* no filterData / sortData call has been made
NoQuery ==
  [fn |-> "none", input |-> <<>>, modelFilter |-> <<>>, searchQuery |-> <<>>,
   sortBy |-> "none", argument |-> <<>>, result |-> <<>>]

\* initializeComponents() has created the components, d3 is loaded
ComponentsReady ==
  /\ d3Defined = TRUE
  /\ constructed = TRUE
  /\ thrown = FALSE
  /\ DataManagerNew
  /\ modal = ModalNew
  /\ query = NoQuery
  /\ server = ServerNew
  /\ cards = CardsNew

\* the EarthSystemViz constructor followed by init() with the loaded catalog
AppLoaded(variables, models) ==
  /\ data = [isNull |-> FALSE, variables |-> variables, models |-> models]
  /\ filteredData = [isNull |-> FALSE, items |-> variables]
  /\ currentFilter = All
  /\ currentSearch = EmptyString
  /\ currentView = "cards"
  /\ initTimers = 0

(***************************************************************************)
(* NetworkView operations, as the effect they have within one step         *)
(***************************************************************************)
\* container.clientWidth / clientHeight as laid out by the browser
ContainerSizes == { [w |-> 1000, h |-> 0] }

DefaultWidth == 1200

DefaultHeight == 800

WidthOf(size) == IF size.w # 0 THEN size.w ELSE DefaultWidth

HeightOf(size) == Max(IF size.h # 0 THEN size.h ELSE DefaultHeight, DefaultHeight)

\* startAnimationLoop
StartAnimationLoop ==
  IF animationRunning
  THEN UNCHANGED << animationRunning, pendingFrames >>
  ELSE /\ animationRunning' = TRUE
       /\ pendingFrames' = pendingFrames + 1

\* EventTarget.addEventListener / removeEventListener on the canvas; fn is
\* the identity of the listener function, NullFn stands for null
NullFn == 0

AddEventListener(ls, type, fn) ==
  IF \E i \in 1..Len(ls) : ls[i].type = type /\ ls[i].fn = fn
  THEN ls
  ELSE Append(ls, [type |-> type, fn |-> fn])

RemoveEventListener(ls, type, fn) ==
  SelectSeq(ls, LAMBDA l : ~(l.type = type /\ l.fn = fn))

\* setupInteractions: three fresh arrow functions
SetupInteractions(ls) ==
  LET fresh == Len(ls)
  IN AddEventListener(
       AddEventListener(
         AddEventListener(ls, "mousemove", fresh + 1), "click", fresh + 2),
       "mouseleave", fresh + 3)

\* the removeEventListener calls of destroy()
ReleaseListeners(ls) ==
  RemoveEventListener(
    RemoveEventListener(
      RemoveEventListener(ls, "mousemove", NullFn), "click", NullFn),
    "mouseleave", NullFn)

HasListener(ls, type) == \E i \in 1..Len(ls) : ls[i].type = type

\* simulation.stop() / simulation.restart() on this.simulation
SetCurrentSim(ss, status) ==
  IF ss = <<>> THEN ss ELSE [ss EXCEPT ![Len(ss)] = status]

\* init(canvas, variables, models); canvasArg tells whether the canvas
\* argument is an element (TRUE) or null (FALSE). Without a canvas or
\* without d3 it logs a warning (lastCall "warn") and returns.
NvInit(canvasArg, variables, models, size, rnd) ==
  LET w == WidthOf(size)
      h == HeightOf(size)
      built == ProcessData(variables, models, w, h, rnd)
  IN IF ~canvasArg \/ ~d3Defined
     THEN /\ lastCall' = "warn"
          /\ UNCHANGED << canvas, loopVars, listeners, graphVars, tooltip,
                          pointer, hit, quiet >>
     ELSE /\ canvas' = TRUE
          /\ width' = w
          /\ height' = h
          /\ nodes' = built.nodes
          /\ links' = built.links
          /\ StartAnimationLoop
          /\ sims' = Append(sims, "running")
          /\ listeners' = SetupInteractions(listeners)
          /\ quiet' = FALSE
          /\ lastCall' = "init"
          /\ UNCHANGED << tooltip, pointer, hit >>

\* the nodes update(variables) leaves
UpdatedNodesUnfiltered(ns, variables) ==
  [i \in 1..Len(ns) |->
     IF ns[i].type = "category" THEN [ns[i] EXCEPT !.variables = variables]
     ELSE ns[i]]

UpdatedNodesPruned(ns, variables) ==
  LET shown == {variables[j].id : j \in 1..Len(variables)}
      kept == SelectSeq(ns, LAMBDA n : n.type # "variable" \/ n.vid \in shown)
  IN [i \in 1..Len(kept) |->
        IF kept[i].type = "category"
        THEN [kept[i] EXCEPT !.variables =
                SelectSeq(variables, LAMBDA v : v.category = kept[i].name)]
        ELSE kept[i]]

UpdatedNodes(ns, variables) ==
  [i \in 1..Len(ns) |->
     IF ns[i].type = "category"
     THEN [ns[i] EXCEPT !.variables =
             SelectSeq(variables, LAMBDA v : v.category = ns[i].name)]
     ELSE ns[i]]

\* update(variables)
NvUpdate(variables) ==
  IF sims = <<>>
  THEN /\ lastCall' = "none"
       /\ UNCHANGED << nodes, sims >>
  ELSE /\ nodes' = UpdatedNodes(nodes, variables)
       /\ sims' = SetCurrentSim(sims, "running")
       /\ lastCall' = "update"

\* resize()
NvResize(size) ==
  /\ IF canvas
     THEN width' = WidthOf(size) /\ height' = HeightOf(size)
     ELSE UNCHANGED << width, height >>
  /\ sims' = SetCurrentSim(sims, "running")
  /\ lastCall' = "resize"

\* destroy()
NvDestroy ==
  /\ animationRunning' = FALSE
  /\ sims' = SetCurrentSim(sims, "stopped")
  /\ tooltip' = FALSE
  /\ listeners' = IF canvas THEN ReleaseListeners(listeners) ELSE listeners
  /\ quiet' = TRUE
  /\ lastCall' = "destroy"

(***************************************************************************)
(* EarthSystemViz handlers                                                 *)
(***************************************************************************)
\* render(): the part that reaches the network view
Render(variables) ==
  IF currentView = "network"
  THEN NvUpdate(variables)
  ELSE /\ lastCall' = "none"
       /\ UNCHANGED << nodes, sims >>

\* a filterAndRender() that would filter by the search text of before the
\* event
FilterAndRenderStale(filter, search) ==
  IF data.isNull
  THEN /\ lastCall' = "none"
       /\ UNCHANGED << filteredData, nodes, sims >>
  ELSE /\ filteredData' =
            [isNull |-> FALSE,
             items |-> FilterData(data.variables, filter, currentSearch)]
       /\ Render(filteredData'.items)

\* filterAndRender() with this.currentFilter already set to `filter` and
\* this.currentSearch to `search`; reading this.data.variables throws once
\* data is null
FilterAndRenderFor(filter, search) ==
  IF data.isNull
  THEN /\ lastCall' = "none"
       /\ UNCHANGED << filteredData, nodes, sims >>
  ELSE /\ filteredData' =
            [isNull |-> FALSE,
             items |-> FilterData(data.variables, filter, search)]
       /\ Render(filteredData'.items)

\* filterAndRender() in a handler that leaves this.currentSearch alone
FilterAndRender(filter) == FilterAndRenderFor(filter, currentSearch)

\* the texts typed into the search box: upper case, white space only
SearchInputs == { <<"GRACE">>, <<" ", " ">> }

\* handleSearch
HandleSearch(value) ==
  /\ currentSearch' = ToLowerCase(value)
  /\ FilterAndRenderFor(currentFilter, ToLowerCase(value))
  /\ lastEvent' = "search"
  /\ UNCHANGED << data, currentFilter, currentView, initTimers, canvas,
                  animationRunning, pendingFrames, listeners, links, width,
                  height, tooltip, pointer, hit, quiet >>
  /\ UNCHANGED extVars

\* clearSearch
ClearSearch ==
  /\ currentSearch' = EmptyString
  /\ FilterAndRenderFor(currentFilter, EmptyString)
  /\ lastEvent' = "clearSearch"
  /\ UNCHANGED << data, currentFilter, currentView, initTimers, canvas,
                  animationRunning, pendingFrames, listeners, links, width,
                  height, tooltip, pointer, hit, quiet >>
  /\ UNCHANGED extVars

\* handleTableSort: sortData(this.filteredData, sortBy) spreads its argument,
\* which throws once filteredData is null
HandleTableSort(sortBy) ==
  /\ filteredData' =
       IF filteredData.isNull THEN filteredData
       ELSE [isNull |-> FALSE, items |-> SortData(filteredData.items, sortBy).result]
  /\ lastEvent' = "sort"
  /\ lastCall' = "none"
  /\ UNCHANGED << data, currentFilter, currentSearch, currentView, initTimers,
                  viewVars >>
  /\ UNCHANGED extVars

\* the values of data-model on the filter buttons, model cards and model tags
FilterValues == {All, M1, M2}

ModelValues == {M1, M2}

\* updateModelCardSelection() with this.currentFilter set to `filter`
UpdateModelCardSelection(cs, filter) ==
  [model \in DOMAIN cs |-> filter = All \/ model = filter]

\* handleFilter: filterAndRender() comes before updateModelCardSelection(),
\* which is not reached when it throws
HandleFilter(model) ==
  /\ currentFilter' = model
  /\ FilterAndRender(model)
  /\ cards' = IF data.isNull THEN cards ELSE UpdateModelCardSelection(cards, model)
  /\ lastEvent' = "filter"
  /\ UNCHANGED << data, currentSearch, currentView, initTimers, canvas,
                  animationRunning, pendingFrames, listeners, links, width,
                  height, tooltip, pointer, hit, quiet >>
  /\ UNCHANGED restVars

\* handleModelClick: the card selection is updated before filterAndRender()
HandleModelClick(model) ==
  /\ currentFilter' = model
  /\ cards' = UpdateModelCardSelection(cards, model)
  /\ FilterAndRender(model)
  /\ lastEvent' = "filter"
  /\ UNCHANGED << data, currentSearch, currentView, initTimers, canvas,
                  animationRunning, pendingFrames, listeners, links, width,
                  height, tooltip, pointer, hit, quiet >>
  /\ UNCHANGED restVars

\* handleModelTagClick
HandleModelTagClick(model) ==
  /\ currentFilter' = model
  /\ cards' = UpdateModelCardSelection(cards, model)
  /\ FilterAndRender(model)
  /\ lastEvent' = "filter"
  /\ UNCHANGED << data, currentSearch, currentView, initTimers, canvas,
                  animationRunning, pendingFrames, listeners, links, width,
                  height, tooltip, pointer, hit, quiet >>
  /\ UNCHANGED restVars

\* the values of data-view on the view toggle buttons
ViewValues == {"cards", "network", "table"}

MaxInits == 2

\* handleViewToggle and switchView; the network case arms a 100 ms timer
HandleViewToggle(view) ==
  /\ view = "network" => Len(sims) + initTimers < MaxInits
  /\ currentView' = view
  /\ initTimers' = IF view = "network" THEN initTimers + 1 ELSE initTimers
  /\ lastEvent' = "viewToggle"
  /\ lastCall' = "none"
  /\ UNCHANGED << data, filteredData, currentFilter, currentSearch, canvas,
                  loopVars, listeners, graphVars, tooltip, pointer, hit, quiet >>
  /\ UNCHANGED extVars

\* the timer callback of switchView: networkView.init(canvas, filteredData,
\* data.models); evaluating this.data.models throws once data is null
InitTimerFires(size, rnd) ==
  /\ initTimers > 0
  /\ initTimers' = initTimers - 1
  /\ lastEvent' = "initTimer"
  /\ IF data.isNull
     THEN /\ lastCall' = "none"
          /\ UNCHANGED << canvas, loopVars, listeners, graphVars, tooltip,
                          pointer, hit, quiet >>
     ELSE NvInit(TRUE, filteredData.items, data.models, size, rnd)
  /\ UNCHANGED << data, filteredData, currentFilter, currentSearch, currentView >>
  /\ UNCHANGED extVars

\* the 'tick' callback of simulation number s: () => this.render()
SimulationTick(s) ==
  /\ s \in 1..Len(sims)
  /\ sims[s] = "running"
  /\ lastEvent' = "tick"
  /\ lastCall' = "render"
  /\ UNCHANGED << appVars, canvas, loopVars, listeners, graphVars, tooltip,
                  pointer, hit, quiet >>
  /\ UNCHANGED extVars

\* simulation number s cools below alphaMin and stops its timer
SimulationCools(s) ==
  /\ s \in 1..Len(sims)
  /\ sims[s] = "running"
  /\ sims' = [sims EXCEPT ![s] = "stopped"]
  /\ lastEvent' = "cool"
  /\ lastCall' = "none"
  /\ UNCHANGED << appVars, canvas, animationRunning, pendingFrames, listeners,
                  graphVars, tooltip, pointer, hit, quiet >>
  /\ UNCHANGED extVars

\* one requestAnimationFrame callback: animate
AnimationFrame ==
  /\ pendingFrames > 0
  /\ lastEvent' = "frame"
  /\ IF animationRunning
     THEN /\ lastCall' = "render"
          /\ UNCHANGED pendingFrames
     ELSE /\ lastCall' = "none"
          /\ pendingFrames' = pendingFrames - 1
  /\ UNCHANGED << appVars, canvas, sims, animationRunning, listeners, graphVars,
                  tooltip, pointer, hit, quiet >>
  /\ UNCHANGED extVars

\* pointer positions of canvas events: on a node, or away from all of them
Pointers ==
  { [x |-> nodes[i].x + 3, y |-> nodes[i].y - 4] : i \in 1..Len(nodes) }
  \cup { [x |-> 0, y |-> 0] }

\* pointer positions of mousemove events: on the first node, or away from
\* all of them
HoverPointers ==
  { [x |-> nodes[i].x + 3, y |-> nodes[i].y - 4] : i \in 1..Min(Len(nodes), 1) }
  \cup { [x |-> 0, y |-> 0] }

\* handleNodeClick
HandleNodeClick(node) ==
  IF node.type = "model"
  THEN /\ currentFilter' = node.name
       /\ FilterAndRender(node.name)
  ELSE /\ lastCall' = "none"
       /\ UNCHANGED << currentFilter, filteredData, nodes, sims >>

\* a click on the canvas, dispatched to the registered click listeners
CanvasClick(p) ==
  /\ canvas
  /\ lastEvent' = "click"
  /\ IF HasListener(listeners, "click") /\ GetNodeAt(nodes, p.x, p.y) # 0
     THEN HandleNodeClick(nodes[GetNodeAt(nodes, p.x, p.y)])
     ELSE /\ lastCall' = "none"
          /\ UNCHANGED << currentFilter, filteredData, nodes, sims >>
  /\ UNCHANGED << data, currentSearch, currentView, initTimers, canvas,
                  animationRunning, pendingFrames, listeners, links, width,
                  height, tooltip, pointer, hit, quiet >>
  /\ UNCHANGED extVars

\* a mousemove on the canvas: tooltip of the hovered node
CanvasMouseMove(p) ==
  /\ canvas
  /\ lastEvent' = "mousemove"
  /\ lastCall' = "none"
  /\ tooltip' = IF HasListener(listeners, "mousemove")
                THEN GetNodeAt(nodes, p.x, p.y) # 0
                ELSE tooltip
  /\ UNCHANGED << appVars, canvas, loopVars, listeners, graphVars, pointer, hit, quiet >>
  /\ UNCHANGED extVars

\* a mouseleave on the canvas
CanvasMouseLeave ==
  /\ canvas
  /\ lastEvent' = "mouseleave"
  /\ lastCall' = "none"
  /\ tooltip' = IF HasListener(listeners, "mouseleave") THEN FALSE ELSE tooltip
  /\ UNCHANGED << appVars, canvas, loopVars, listeners, graphVars, pointer, hit, quiet >>
  /\ UNCHANGED extVars

\* handleResize; its debounced wrapper is the registered listener, so
\* removeEventListener('resize', this.handleResize) leaves it in place
HandleResize(size) ==
  /\ lastEvent' = "resize"
  /\ IF currentView = "network"
     THEN NvResize(size)
     ELSE /\ lastCall' = "none"
          /\ UNCHANGED << width, height, sims >>
  /\ UNCHANGED << appVars, canvas, animationRunning, pendingFrames, listeners,
                  nodes, links, tooltip, pointer, hit, quiet >>
  /\ UNCHANGED extVars

\* EarthSystemViz.destroy, run by the beforeunload handler: removes the
\* keydown handler, destroys the network view and the modal manager
AppDestroy ==
  /\ NvDestroy
  /\ modal' = [MmDestroy(modal) EXCEPT !.keyboardHandler = FALSE]
  /\ data' = NullData
  /\ filteredData' = NullList
  /\ lastEvent' = "destroy"
  /\ UNCHANGED << currentFilter, currentSearch, currentView, initTimers, canvas,
                  pendingFrames, graphVars, pointer, hit >>
  /\ UNCHANGED << envVars, dmVars, query,
                  server, cards >>

(***************************************************************************)
(* The application with its network view (specification Spec)              *)
(***************************************************************************)
\* the catalog of the running application: two categories, three variables
\* (two in category A with model M1, one in category B with model M2) and
\* two models
ExampleVariables ==
  << MkVariable(1, [category |-> CatA, models |-> <<M1>>, sources |-> <<Grace>>]),
     MkVariable(2, [category |-> CatA, models |-> <<M1>>, sources |-> <<Grace>>]),
     MkVariable(3, [category |-> CatB, models |-> <<M2>>,
                    sources |-> <<VariousSources, <<>>>>]) >>

ExampleModels == << [name |-> M1], [name |-> M2] >>

LoadedCatalogs ==
  { [variables |-> ExampleVariables, models |-> ExampleModels] }

Init ==
  /\ \E catalog \in LoadedCatalogs : AppLoaded(catalog.variables, catalog.models)
  /\ NetworkViewNew
  /\ ComponentsReady
  /\ lastEvent = "load"
  /\ lastCall = "none"

Next ==
  \/ \E model \in FilterValues : HandleFilter(model)
  \/ \E model \in ModelValues : HandleModelClick(model)
  \/ \E model \in ModelValues : HandleModelTagClick(model)
  \/ \E view \in ViewValues : HandleViewToggle(view)
  \/ \E size \in ContainerSizes, rnd \in RandomDraws : InitTimerFires(size, rnd)
  \/ \E s \in 1..MaxInits : SimulationTick(s)
  \/ \E s \in 1..MaxInits : SimulationCools(s)
  \/ AnimationFrame
  \/ \E p \in Pointers : CanvasClick(p)
  \/ \E p \in HoverPointers : CanvasMouseMove(p)
  \/ CanvasMouseLeave
  \/ \E size \in ContainerSizes : HandleResize(size)
  \/ AppDestroy

Spec == Init /\ [][Next]_vars

(***************************************************************************)
(* The graph builder on arbitrary catalogs (specification SpecBuild)       *)
(***************************************************************************)
InitBuild ==
  /\ \E variables \in VariableLists, models \in ModelCatalogs :
       AppLoaded(variables, models)
  /\ NetworkViewNew
  /\ ComponentsReady
  /\ lastEvent = "load"
  /\ lastCall = "none"

\* processData(variables, models)
CallProcessData(rnd) ==
  LET built == ProcessData(filteredData.items, data.models, width, height, rnd)
  IN /\ nodes' = built.nodes
     /\ links' = built.links
     /\ lastEvent' = "call"
     /\ lastCall' = "processData"
     /\ UNCHANGED << appVars, canvas, loopVars, listeners, width, height, tooltip,
                     pointer, hit, quiet >>
     /\ UNCHANGED extVars

\* processData(variables, models, true), which is processSimpleData()
CallProcessSimpleData ==
  LET built == ProcessSimpleData(width, height)
  IN /\ nodes' = built.nodes
     /\ links' = built.links
     /\ lastEvent' = "call"
     /\ lastCall' = "processSimpleData"
     /\ UNCHANGED << appVars, canvas, loopVars, listeners, width, height, tooltip,
                     pointer, hit, quiet >>
     /\ UNCHANGED extVars

NextBuild ==
  \/ \E rnd \in RandomDraws : CallProcessData(rnd)
  \/ CallProcessSimpleData

SpecBuild == InitBuild /\ [][NextBuild]_vars

(***************************************************************************)
(* Hit-testing on arbitrary node positions (specification SpecHit)         *)
(***************************************************************************)
MaxHitNodes == 3

\* positions the simulation may have moved a node to, and pointer positions
HitGrid ==
  { [x |-> 0, y |-> 0], [x |-> 10, y |-> 0], [x |-> 12, y |-> 16],
    [x |-> 15, y |-> 0], [x |-> 30, y |-> 0], [x |-> 100, y |-> 100] }

HitNodes(n, pos) ==
  LET built == BuildNodes(ExampleVariables, ExampleModels, 800, 600,
                          [i \in 1..Cardinality(SourceNames) |->
                             [angle |-> 0, radius |-> 0]])
  IN [i \in 1..n |-> [built[i] EXCEPT !.x = pos[i].x, !.y = pos[i].y]]

InitHit ==
  /\ AppLoaded(ExampleVariables, ExampleModels)
  /\ NetworkViewNew
  /\ ComponentsReady
  /\ lastEvent = "load"
  /\ lastCall = "none"

\* the simulation has placed the first n nodes
PlaceNodes ==
  /\ nodes = <<>>
  /\ \E n \in 1..MaxHitNodes : \E pos \in [1..n -> HitGrid] :
       nodes' = HitNodes(n, pos)
  /\ lastEvent' = "tick"
  /\ lastCall' = "render"
  /\ UNCHANGED << appVars, canvas, loopVars, listeners, links, width, height,
                  tooltip, pointer, hit, quiet >>
  /\ UNCHANGED extVars

\* getNodeAt(x, y)
CallGetNodeAt(p) ==
  LET found == GetNodeAt(nodes, p.x, p.y)
  IN /\ pointer' = p
     /\ hit' = IF found = 0 THEN NoNode ELSE nodes[found].id
     /\ lastEvent' = "call"
     /\ lastCall' = "getNodeAt"
     /\ UNCHANGED << appVars, canvas, loopVars, listeners, graphVars, tooltip,
                     quiet >>
     /\ UNCHANGED extVars

NextHit ==
  \/ PlaceNodes
  \/ \E p \in HitGrid : CallGetNodeAt(p)

SpecHit == InitHit /\ [][NextHit]_vars

(***************************************************************************)
(* Creating and initialising a network view (specification SpecView)       *)
(***************************************************************************)
\* the values of the canvas argument of init: null or an element
CanvasArgs == BOOLEAN

\* the catalogs a view is initialised with
ViewVariableLists == { vs \in VariableLists : Len(vs) <= 2 }

\* no instance yet; the field values are those the constructor assigns
\* before it reads d3.zoomIdentity
InitView ==
  /\ \E variables \in ViewVariableLists, models \in ModelCatalogs :
       AppLoaded(variables, models)
  /\ NetworkViewNew
  /\ d3Defined \in BOOLEAN
  /\ constructed = FALSE
  /\ thrown = FALSE
  /\ DataManagerNew
  /\ modal = ModalNew
  /\ query = NoQuery
  /\ server = ServerNew
  /\ cards = CardsNew
  /\ lastEvent = "load"
  /\ lastCall = "none"

\* new NetworkView(): the last statement of the constructor reads
\* d3.zoomIdentity, which throws when d3 does not exist
Construct ==
  /\ ~constructed
  /\ constructed' = d3Defined
  /\ thrown' = ~d3Defined
  /\ lastEvent' = "call"
  /\ lastCall' = "new"
  /\ UNCHANGED << appVars, canvas, loopVars, listeners, graphVars, tooltip,
                  pointer, hit, quiet, d3Defined, dmVars, modal, query,
                  server, cards >>

\* networkView.init(canvas, variables, models) on the instance
CallInit(canvasArg, size, rnd) ==
  /\ constructed
  /\ Len(sims) < MaxInits
  /\ NvInit(canvasArg, filteredData.items, data.models, size, rnd)
  /\ thrown' = FALSE
  /\ lastEvent' = "call"
  /\ UNCHANGED << appVars, d3Defined, constructed, dmVars, modal, query,
                  server, cards >>

NextView ==
  \/ Construct
  \/ \E canvasArg \in CanvasArgs, size \in ContainerSizes, rnd \in RandomDraws :
       CallInit(canvasArg, size, rnd)

SpecView == InitView /\ [][NextView]_vars

(***************************************************************************)
(* Loading through the DataManager (specification SpecData)                *)
(***************************************************************************)
MaxLoads == 3

MaxClears == 1

InitData ==
  /\ AppLoaded(ExampleVariables, ExampleModels)
  /\ NetworkViewNew
  /\ ComponentsReady
  /\ lastEvent = "load"
  /\ lastCall = "none"

\* the indices of the loadData() calls that have returned
Returned == { i \in 1..Len(loads) : loads[i].phase = "returned" }

InFlight == { i \in 1..Len(loads) : loads[i].phase = "fetching" }

\* loadData() up to its first await: a cache hit returns the cached object,
\* otherwise fetch(this.dataUrl) is called and the call waits for it
LoadDataCalled ==
  /\ Len(loads) < MaxLoads
  /\ IF CacheHit(cache)
     THEN /\ loads' = Append(loads,
               [phase |-> "returned", fetched |-> FALSE, result |-> cache.obj,
                outcome |-> "cached", rejected |-> FALSE, cause |-> "none",
                doneAtStart |-> Returned, epoch |-> clears,
                endEpoch |-> clears, aloneAtEnd |-> InFlight = {}])
          /\ lastCall' = "cached"
          /\ UNCHANGED fetchCalls
     ELSE /\ loads' = Append(loads,
               [phase |-> "fetching", fetched |-> TRUE, result |-> 0,
                outcome |-> "pending", rejected |-> FALSE, cause |-> "none",
                doneAtStart |-> Returned, epoch |-> clears,
                endEpoch |-> clears, aloneAtEnd |-> FALSE])
          /\ fetchCalls' = fetchCalls + 1
          /\ lastCall' = "fetch"
  /\ lastEvent' = "loadData"
  /\ UNCHANGED << appVars, viewVars, envVars, cache, heap, clears, modal, query,
                  server, cards >>

\* the fetch of call i settles and loadData() runs to its end: response.ok,
\* response.json(), validateData, processData and cache.set, or the catch
\* block with loadFallbackData()
FetchSettles(i, response) ==
  /\ i \in InFlight
  /\ LET try == TryLoad(response)
         fallback == LoadFallbackData
         loaded == ~try.threw
         object == IF loaded THEN try.data ELSE fallback.data
         rejects == try.threw /\ fallback.threw
     IN /\ heap' = IF rejects THEN heap ELSE Append(heap, object)
        /\ cache' = CacheAfterLoad(cache, loaded, NewObject(heap))
        /\ loads' = [loads EXCEPT ![i] =
              [@ EXCEPT !.phase = "returned",
                        !.result = IF rejects THEN 0 ELSE NewObject(heap),
                        !.outcome = IF loaded THEN "loaded" ELSE "fallback",
                        !.rejected = rejects,
                        !.cause = FailureOf(response),
                        !.endEpoch = clears,
                        !.aloneAtEnd = (InFlight = {i})]]
        /\ lastCall' = IF loaded THEN "loaded" ELSE "fallback"
  /\ lastEvent' = "settle"
  /\ UNCHANGED << appVars, viewVars, envVars, fetchCalls, clears, modal, query,
                  server, cards >>

\* clearCache()
ClearCache ==
  /\ clears < MaxClears
  /\ cache' = [has |-> FALSE, obj |-> 0]
  /\ clears' = clears + 1
  /\ lastEvent' = "clearCache"
  /\ lastCall' = "none"
  /\ UNCHANGED << appVars, viewVars, envVars, heap, fetchCalls, loads, modal, query,
                  server, cards >>

NextData ==
  \/ LoadDataCalled
  \/ \E i \in 1..MaxLoads, response \in FetchResponses : FetchSettles(i, response)
  \/ ClearCache

SpecData == InitData /\ [][NextData]_vars

(***************************************************************************)
(* filterData and sortData on arbitrary arrays (specification SpecQuery)   *)
(***************************************************************************)
MaxQueryLen == 3

\* the variables the arrays are made of: names out of order, two variables
\* of the same name, untrimmed and empty source names
QueryPool ==
  { MkVariable(2, [category |-> CatB, models |-> <<M1>>, sources |-> <<Grace>>]),
    MkVariable(1, [category |-> CatB, models |-> <<M1, M2>>,
                   sources |-> << <<" ">> \o Grace, Modis >>]),
    MkVariable(3, [category |-> CatA, models |-> <<M2>>,
                   sources |-> <<VariousSources, <<>>>>]),
    [MkVariable(4, [category |-> CatA, models |-> <<M2>>, sources |-> <<Modis>>])
       EXCEPT !.variable = <<"v1">>] }

QueryLists == UNION { [1..n -> QueryPool] : n \in 0..MaxQueryLen }

\* the values of modelFilter: the default 'all', '', listed and unlisted models
QueryModelFilters == { All, EmptyString, M1, M2, <<"NONEXISTENT">> }

\* the values of searchQuery: the default '', white space only, upper case,
\* surrounded by white space, matching nothing
SearchQueries ==
  { EmptyString, <<" ", " ">>, <<"GRACE">>, <<" ", " ", " ", "M2", " ">>,
    <<"v1">>, <<"zzz">> }

SortKeys == KnownSortKeys \cup {"name"}

InitQuery ==
  /\ \E variables \in QueryLists :
       /\ data = [isNull |-> FALSE, variables |-> Tuple(variables),
                  models |-> ExampleModels]
       /\ filteredData = [isNull |-> FALSE, items |-> Tuple(variables)]
  /\ currentFilter = All
  /\ currentSearch = EmptyString
  /\ currentView = "cards"
  /\ initTimers = 0
  /\ NetworkViewNew
  /\ ComponentsReady
  /\ lastEvent = "load"
  /\ lastCall = "none"

\* dataManager.filterData(variables, modelFilter, searchQuery)
CallFilterData(modelFilter, searchQuery) ==
  /\ query' = [fn |-> "filterData", input |-> data.variables,
               modelFilter |-> modelFilter, searchQuery |-> searchQuery,
               sortBy |-> "none", argument |-> data.variables,
               result |-> FilterData(data.variables, modelFilter, searchQuery)]
  /\ lastEvent' = "call"
  /\ lastCall' = "filterData"
  /\ UNCHANGED << appVars, viewVars, envVars, dmVars, modal,
                  server, cards >>

\* dataManager.sortData(variables, sortBy)
CallSortData(sortBy) ==
  LET done == SortData(data.variables, sortBy)
  IN /\ query' = [fn |-> "sortData", input |-> data.variables,
                  modelFilter |-> <<>>, searchQuery |-> <<>>, sortBy |-> sortBy,
                  argument |-> done.argument, result |-> done.result]
     /\ lastEvent' = "call"
     /\ lastCall' = "sortData"
     /\ UNCHANGED << appVars, viewVars, envVars, dmVars, modal,
                  server, cards >>

NextQuery ==
  \/ \E modelFilter \in QueryModelFilters, searchQuery \in SearchQueries :
       CallFilterData(modelFilter, searchQuery)
  \/ \E sortBy \in SortKeys : CallSortData(sortBy)

SpecQuery == InitQuery /\ [][NextQuery]_vars

(***************************************************************************)
(* The modal dialog (specifications SpecModal and SpecModalLive)           *)
(***************************************************************************)
MaxShows == 3

MaxCloseTimers == 3

InitModal ==
  /\ AppLoaded(ExampleVariables, ExampleModels)
  /\ NetworkViewNew
  /\ ComponentsReady
  /\ lastEvent = "load"
  /\ lastCall = "none"

\* modalManager.show(...), reached from a variable, a model card or About
ShowModal ==
  /\ modal.shows < MaxShows
  /\ modal' = MmShow(modal)
  /\ lastEvent' = "show"
  /\ lastCall' = "none"
  /\ UNCHANGED << appVars, viewVars, envVars, dmVars, query,
                  server, cards >>

\* the 10 ms timer of a show() fires
OpenTimerFires ==
  /\ modal.openTimers > 0
  /\ modal' = MmOpenTimer(modal)
  /\ lastEvent' = "openTimer"
  /\ lastCall' = "none"
  /\ UNCHANGED << appVars, viewVars, envVars, dmVars, query,
                  server, cards >>

\* the 300 ms timer of a close() fires
CloseTimerFires ==
  /\ modal.closeTimers > 0
  /\ modal' = MmCloseTimer(modal)
  /\ lastEvent' = "closeTimer"
  /\ lastCall' = "none"
  /\ UNCHANGED << appVars, viewVars, envVars, dmVars, query,
                  server, cards >>

\* where a keydown event is targeted
KeyTargets == {"body", "input"}

\* keydown with key 'Escape': first the listener of ModalManager, then
\* handleKeyboard (which returns early when the target is an input field)
KeyEscape(target) ==
  LET cause == IF target = "input" THEN "escapeInInput" ELSE "escape"
      afterModalManager == IF modal.isOpen THEN MmClose(modal, cause) ELSE modal
      afterApp ==
        IF afterModalManager.keyboardHandler /\ target # "input"
        THEN MmClose(afterModalManager, cause)
        ELSE afterModalManager
  IN /\ modal.closeTimers + 2 <= MaxCloseTimers
     /\ modal' = afterApp
     /\ lastEvent' = cause
     /\ lastCall' = "none"
     /\ UNCHANGED << appVars, viewVars, envVars, dmVars, query,
                  server, cards >>

\* a click on the backdrop: the listener of ModalManager and the one of
\* EarthSystemViz.setupEventListeners both call close()
BackdropClick ==
  /\ modal.closeTimers + 2 <= MaxCloseTimers
  /\ modal.display = "flex"
  /\ modal' = MmClose(MmClose(modal, "backdrop"), "backdrop")
  /\ lastEvent' = "backdrop"
  /\ lastCall' = "none"
  /\ UNCHANGED << appVars, viewVars, envVars, dmVars, query,
                  server, cards >>

\* a click on the close button
CloseButtonClick ==
  /\ modal.closeTimers + 1 <= MaxCloseTimers
  /\ modal.display = "flex"
  /\ modal' = MmClose(modal, "closeButton")
  /\ lastEvent' = "closeButton"
  /\ lastCall' = "none"
  /\ UNCHANGED << appVars, viewVars, envVars, dmVars, query,
                  server, cards >>

\* beforeunload: EarthSystemViz.destroy
ModalAppDestroy ==
  /\ modal.closeTimers + 1 <= MaxCloseTimers
  /\ AppDestroy

NextModal ==
  \/ ShowModal
  \/ OpenTimerFires
  \/ CloseTimerFires
  \/ \E target \in KeyTargets : KeyEscape(target)
  \/ BackdropClick
  \/ CloseButtonClick
  \/ ModalAppDestroy

SpecModal == InitModal /\ [][NextModal]_vars

\* a timer that has been armed fires
SpecModalLive ==
  SpecModal /\ WF_vars(CloseTimerFires) /\ WF_vars(OpenTimerFires)

(***************************************************************************)
(* NetworkView.setupSimulation: the accessors of the link force            *)
(***************************************************************************)
\* an accessor that would read the value processData stored on the edge
LinkDistanceStored(d) == d.distance

\* .distance(d => { switch (d.type) ... })
LinkDistance(d) ==
  CASE d.type = "category-variable" -> 70
    [] d.type = "category-mission" -> 90
    [] d.type = "variable-model" -> 140
    [] d.type = "mission-model" -> 130
    [] d.type = "variable-source" -> 110
    [] OTHER -> 100

\* .strength(d => { switch (d.type) ... }), in tenths
LinkStrength10(d) ==
  CASE d.type = "category-variable" -> 8
    [] d.type = "category-mission" -> 7
    [] d.type = "variable-model" -> 5
    [] d.type = "mission-model" -> 6
    [] d.type = "variable-source" -> 3
    [] OTHER -> 3

(***************************************************************************)
(* The development server (specification SpecServe)                        *)
(***************************************************************************)
InitServe ==
  /\ AppLoaded(ExampleVariables, ExampleModels)
  /\ NetworkViewNew
  /\ ComponentsReady
  /\ lastEvent = "load"
  /\ lastCall = "none"

\* one HTTP request: http.createServer((req, res) => this.handleRequest(req, res))
ServerRequest(pathname) ==
  /\ server' = HandleRequest(pathname)
  /\ lastEvent' = "request"
  /\ lastCall' = "handleRequest"
  /\ UNCHANGED << appVars, viewVars, envVars, dmVars, modal, query, cards >>

NextServe == \E pathname \in RequestPaths : ServerRequest(pathname)

SpecServe == InitServe /\ [][NextServe]_vars

(***************************************************************************)
(* The animation loop of one network view (specification SpecLoop)         *)
(***************************************************************************)
\* the most animate callbacks waiting for the next frame
MaxChains == 3

InitLoop ==
  /\ AppLoaded(ExampleVariables, ExampleModels)
  /\ NetworkViewNew
  /\ ComponentsReady
  /\ lastEvent = "load"
  /\ lastCall = "none"

\* networkView.startAnimationLoop()
CallStartAnimationLoop ==
  /\ pendingFrames < MaxChains
  /\ StartAnimationLoop
  /\ lastEvent' = "call"
  /\ lastCall' = "startAnimationLoop"
  /\ UNCHANGED << appVars, canvas, sims, listeners, graphVars, tooltip, pointer,
                  hit, quiet >>
  /\ UNCHANGED extVars

\* networkView.stopAnimationLoop()
CallStopAnimationLoop ==
  /\ animationRunning' = FALSE
  /\ lastEvent' = "call"
  /\ lastCall' = "stopAnimationLoop"
  /\ UNCHANGED << appVars, canvas, sims, pendingFrames, listeners, graphVars,
                  tooltip, pointer, hit, quiet >>
  /\ UNCHANGED extVars

\* networkView.init(canvas, variables, models), which starts the loop in
\* setupSimulation
LoopInit(size, rnd) ==
  /\ pendingFrames < MaxChains
  /\ CallInit(TRUE, size, rnd)

\* networkView.destroy(), which stops the loop
CallDestroy ==
  /\ NvDestroy
  /\ lastEvent' = "call"
  /\ UNCHANGED << appVars, canvas, pendingFrames, graphVars, pointer, hit >>
  /\ UNCHANGED extVars

NextLoop ==
  \/ CallStartAnimationLoop
  \/ CallStopAnimationLoop
  \/ AnimationFrame
  \/ \E size \in ContainerSizes, rnd \in RandomDraws : LoopInit(size, rnd)
  \/ CallDestroy

SpecLoop == InitLoop /\ [][NextLoop]_vars

(***************************************************************************)
(* The events that filter, search and sort (specification SpecApp)         *)
(***************************************************************************)
\* the catalog of the page: three variables that are not in the order of
\* their names, their categories or their models
AppVariables ==
  << MkVariable(2, [category |-> CatB, models |-> <<M1>>, sources |-> <<Grace>>]),
     MkVariable(3, [category |-> CatA, models |-> <<M2>>,
                    sources |-> <<VariousSources, <<>>>>]),
     MkVariable(1, [category |-> CatB, models |-> <<M1, M2>>,
                    sources |-> << <<" ">> \o Grace, Modis >>]) >>

\* the network view is initialised at most this often
MaxAppInits == 1

\* Math.random() as drawn while the page's network view is built
AppDraws == { [i \in 1..Cardinality(SourceNames) |-> [angle |-> 8, radius |-> 19]] }

InitApp ==
  /\ AppLoaded(AppVariables, ExampleModels)
  /\ NetworkViewNew
  /\ ComponentsReady
  /\ lastEvent = "load"
  /\ lastCall = "none"

\* a click on a view button
AppViewToggle(view) ==
  /\ view = "network" => Len(sims) + initTimers < MaxAppInits
  /\ HandleViewToggle(view)

NextApp ==
  \/ \E value \in SearchInputs : HandleSearch(value)
  \/ ClearSearch
  \/ \E model \in FilterValues : HandleFilter(model)
  \/ \E model \in ModelValues : HandleModelClick(model)
  \/ \E model \in ModelValues : HandleModelTagClick(model)
  \/ \E sortBy \in SortKeys : HandleTableSort(sortBy)
  \/ \E view \in ViewValues : AppViewToggle(view)
  \/ \E size \in ContainerSizes, rnd \in AppDraws : InitTimerFires(size, rnd)
  \/ \E p \in Pointers : CanvasClick(p)

SpecApp == InitApp /\ [][NextApp]_vars

(***************************************************************************)
(* Properties                                                              *)
(***************************************************************************)
\* the variables and models last handed to processData in SpecBuild
InputVariables == filteredData.items

InputModels == data.models

NodeIndexes(type) == {i \in 1..Len(nodes) : nodes[i].type = type}

LinkIndexes(type) == {l \in 1..Len(links) : links[l].type = type}

\* C1: after processData or processSimpleData every node id occurs once in
\* nodes, and the source and target of every link are ids of nodes
C1_IdsUniqueLinksResolved ==
  lastCall \in {"processData", "processSimpleData"} =>
    /\ \A i, j \in 1..Len(nodes) : nodes[i].id = nodes[j].id => i = j
    /\ \A l \in 1..Len(links) :
         /\ \E i \in 1..Len(nodes) : nodes[i].id = links[l].source
         /\ \E i \in 1..Len(nodes) : nodes[i].id = links[l].target

C1_Witness ==
  /\ lastCall = "processData"
  /\ LinkIndexes("category-variable") # {}
  /\ LinkIndexes("variable-model") # {}
  /\ LinkIndexes("variable-source") # {}

\* C2: processData builds as many category nodes as there are distinct
\* category values among the variables
C2_CategoryNodeCount ==
  lastCall = "processData" =>
    Cardinality(NodeIndexes("category"))
      = Cardinality({InputVariables[i].category : i \in 1..Len(InputVariables)})

C2_Witness ==
  /\ lastCall = "processData"
  /\ Len(InputVariables) = 3
  /\ Cardinality(NodeIndexes("category")) = 2

\* C3: processData builds exactly one variable node per variable, and as many
\* category-variable links as there are variables
C3_VariableNodesAndCategoryLinks ==
  lastCall = "processData" =>
    /\ \A i \in 1..Len(InputVariables) :
         Cardinality({n \in NodeIndexes("variable") :
                        nodes[n].vid = InputVariables[i].id}) = 1
    /\ Cardinality(NodeIndexes("variable")) = Len(InputVariables)
    /\ Cardinality(LinkIndexes("category-variable")) = Len(InputVariables)

C3_Witness ==
  /\ lastCall = "processData"
  /\ Len(InputVariables) = 3
  /\ \A i \in 1..3 : InputVariables[i].category = CatA

\* C4: every (variable, model name) pair whose model is in the models list
\* gets exactly one variable-model link from the variable's node to the
\* model's node; a name that is not in the list gets no link, and all other
\* nodes and links are built all the same
ListedModelNames == {InputModels[k].name : k \in 1..Len(InputModels)}

VariableModelLinksBetween(variable, modelName) ==
  {l \in LinkIndexes("variable-model") :
     /\ \E n \in NodeIndexes("variable") :
          nodes[n].vid = variable.id /\ nodes[n].id = links[l].source
     /\ \E n \in NodeIndexes("model") :
          nodes[n].name = modelName /\ nodes[n].id = links[l].target}

C4_ModelLinksSkipUnknownModels ==
  lastCall = "processData" =>
    /\ \A i \in 1..Len(InputVariables) : \A m \in Range(InputVariables[i].models) :
         Cardinality(VariableModelLinksBetween(InputVariables[i], m))
           = IF m \in ListedModelNames THEN 1 ELSE 0
    /\ Cardinality(LinkIndexes("variable-model"))
         = Cardinality({<<i, m>> \in (1..Len(InputVariables)) \X ListedModelNames :
                          m \in Range(InputVariables[i].models)})
    /\ Cardinality(NodeIndexes("variable")) = Len(InputVariables)
    /\ Cardinality(NodeIndexes("model")) = Len(InputModels)
    /\ Cardinality(LinkIndexes("category-variable")) = Len(InputVariables)
    /\ Len(nodes) = Cardinality(NodeIndexes("category")) + Len(InputVariables)
                    + Len(InputModels) + Len(SourceArray(InputVariables))

C4_Witness ==
  /\ lastCall = "processData"
  /\ M2 \notin ListedModelNames
  /\ \E i \in 1..Len(InputVariables) :
       /\ InputVariables[i].models = <<M1, M2>>
       /\ Cardinality(VariableModelLinksBetween(InputVariables[i], M1)) = 1
  /\ \E i \in 1..Len(InputVariables) : InputVariables[i].models = <<M2>>

\* C5: the example catalog (2 categories, 3 variables, 2 models)
ExampleBuilt ==
  /\ lastCall = "processData"
  /\ InputVariables = ExampleVariables
  /\ InputModels = ExampleModels

BaseNodeCount ==
  Cardinality(NodeIndexes("category")) + Cardinality(NodeIndexes("variable"))
  + Cardinality(NodeIndexes("model"))

\* C5 as stated: 7 category, variable and model nodes, 3 category-variable
\* links and exactly 2 variable-model links
C5_AsStated ==
  ExampleBuilt =>
    /\ BaseNodeCount = 7
    /\ Len(nodes) = 7 + Cardinality(NodeIndexes("source"))
    /\ Cardinality(LinkIndexes("category-variable")) = 3
    /\ Cardinality(LinkIndexes("variable-model")) = 2

\* C5 (amended): for the example catalog processData yields 7 category,
\* variable and model nodes plus one node per source, 3 category-variable
\* links and 3 variable-model links, one per variable
C5_ExampleCounts ==
  ExampleBuilt =>
    /\ BaseNodeCount = 7
    /\ Len(nodes) = 7 + Cardinality(NodeIndexes("source"))
    /\ Cardinality(LinkIndexes("category-variable")) = 3
    /\ Cardinality(LinkIndexes("variable-model")) = 3
    /\ \A i \in 1..3 :
         Cardinality({l \in LinkIndexes("variable-model") :
                        \E n \in NodeIndexes("variable") :
                          /\ nodes[n].vid = ExampleVariables[i].id
                          /\ nodes[n].id = links[l].source}) = 1

C5_Witness == ExampleBuilt /\ Cardinality(NodeIndexes("source")) = 1

\* nodes in range of the pointer of the last getNodeAt call
InRange == {i \in 1..Len(nodes) : WithinHitRadius(nodes[i], pointer.x, pointer.y)}

Distance2(i) ==
  (nodes[i].x - pointer.x) * (nodes[i].x - pointer.x)
  + (nodes[i].y - pointer.y) * (nodes[i].y - pointer.y)

\* C6 as stated: getNodeAt returns a node nearest to the pointer among the
\* nodes closer than 20 pixels, and no node when none is that close
C6_AsStated ==
  lastCall = "getNodeAt" =>
    IF InRange = {} THEN hit = NoNode
    ELSE \E i \in InRange :
           /\ nodes[i].id = hit
           /\ \A j \in InRange : Distance2(i) <= Distance2(j)

\* C6 (amended): getNodeAt returns the first node, in the order of
\* this.nodes, that is closer than 20 pixels to the pointer, and no node
\* when none is that close
C6_FirstNodeInRange ==
  lastCall = "getNodeAt" =>
    IF InRange = {} THEN hit = NoNode
    ELSE \E i \in InRange :
           /\ nodes[i].id = hit
           /\ \A j \in InRange : i <= j

C6_Witness ==
  /\ lastCall = "getNodeAt"
  /\ Cardinality(InRange) >= 2
  /\ \E i \in InRange :
       /\ nodes[i].id = hit
       /\ \E j \in InRange : Distance2(j) < Distance2(i)

\* C7: update(variables) on an initialised view keeps the number of nodes
\* and sets the variables list of every category node to the given
\* variables of that category
C7_UpdateSetsCategoryVariables ==
  [][lastCall' = "update" =>
       /\ Len(nodes') = Len(nodes)
       /\ \A i \in 1..Len(nodes') :
            nodes'[i].type = "category" =>
              nodes'[i].variables =
                SelectSeq(filteredData'.items, LAMBDA v : v.category = nodes'[i].name)]_vars

C7_Witness ==
  /\ lastCall = "update"
  /\ Len(filteredData.items) < Len(data.variables)
  /\ \E i \in NodeIndexes("category") :
       nodes[i].variables = <<>> /\ nodes[i].variableCount > 0
  /\ \E i \in NodeIndexes("category") : nodes[i].variables # <<>>

\* a node or link array without the coordinates, which depend on the random
\* placement of the source nodes
Structure(ns) ==
  [i \in 1..Len(ns) |->
     [id |-> ns[i].id, name |-> ns[i].name, type |-> ns[i].type,
      vid |-> ns[i].vid, variables |-> ns[i].variables]]

\* C8 as stated: after update(V) the nodes and links are the ones
\* processData(V, models) builds
C8_AsStated ==
  lastCall = "update" =>
    \E rnd \in RandomDraws :
      LET built == ProcessData(filteredData.items, data.models, width, height, rnd)
      IN /\ Structure(nodes) = Structure(built.nodes)
         /\ links = built.links

\* C8 (amended): update(V) does not rebuild the arrays: it keeps every link
\* and every node built by the last init, and changes nothing but the
\* variables list of the category nodes
C8_UpdateKeepsArrays ==
  [][lastCall' = "update" =>
       /\ links' = links
       /\ Len(nodes') = Len(nodes)
       /\ \A i \in 1..Len(nodes) :
            IF nodes[i].type = "category"
            THEN nodes'[i] = [nodes[i] EXCEPT !.variables = nodes'[i].variables]
            ELSE nodes'[i] = nodes[i]]_vars

C8_Witness ==
  /\ lastCall = "update"
  /\ Cardinality(NodeIndexes("variable")) > Len(filteredData.items)
  /\ Cardinality(LinkIndexes("category-variable")) > Len(filteredData.items)

\* C9 as stated: once destroy() has run, and until init runs again, no
\* simulation tick and no animation frame calls render()
C9_NoRenderAfterDestroy ==
  quiet => ~(lastCall = "render" /\ lastEvent \in {"tick", "frame"})

\* C10 as stated: once destroy() has run, a click, mousemove or mouseleave
\* on the canvas runs no handler of the view: the application filter and
\* the tooltip stay as they are
C10_ListenersReleased ==
  [][(quiet /\ lastEvent' \in {"click", "mousemove", "mouseleave"}) =>
       /\ currentFilter' = currentFilter
       /\ tooltip' = tooltip]_vars

\* C11: when the canvas is missing or d3 is unavailable, creating a
\* NetworkView and calling init never throws and leaves canvas, simulation,
\* nodes and links at their initial empty values. The code violates the
\* first half: new NetworkView() throws when d3 does not exist.
C11_MissingCanvasOrD3NoOps ==
  /\ lastCall = "new" => ~thrown
  /\ (lastCall = "warn" /\ sims = <<>>) =>
       (~thrown /\ canvas = FALSE /\ nodes = <<>> /\ links = <<>>)

\* C12: of two category nodes, two model nodes or two source nodes built by
\* processData, the one with more associated variables never has the
\* smaller radius.
C12_RadiusMonotone ==
  lastCall = "processData" =>
    \A i, j \in 1..Len(nodes) :
      ( /\ nodes[i].type = nodes[j].type
        /\ nodes[i].type \in {"category", "model", "source"}
        /\ Len(nodes[i].variables) > Len(nodes[j].variables) )
      => nodes[i].radius10 >= nodes[j].radius10

\* processData has built two source nodes, two model nodes and two category
\* nodes with different numbers of variables
C12_Witness ==
  /\ lastCall = "processData"
  /\ \A type \in {"category", "model", "source"} :
       \E i, j \in 1..Len(nodes) :
         /\ nodes[i].type = type /\ nodes[j].type = type
         /\ Len(nodes[i].variables) > Len(nodes[j].variables)
         /\ nodes[i].radius10 > nodes[j].radius10

\* call j was made after call i had returned, with no clearCache() between
\* the return of i and the call of j
LaterCall(i, j) ==
  /\ i \in loads[j].doneAtStart
  /\ loads[j].epoch = loads[i].endEpoch

\* C13 as stated: after a loadData() call whose fetch and validation
\* succeeded, every later call returns that identical object without a fetch
\* until clearCache() is called.
C13_AsStated ==
  \A i, j \in 1..Len(loads) :
    (loads[i].outcome = "loaded" /\ loads[i].phase = "returned" /\ LaterCall(i, j))
    => (loads[j].result = loads[i].result /\ ~loads[j].fetched)

\* C13: a loadData() call whose fetch and validation succeeded leaves its
\* processed data in the cache, and, when no other loadData() call was in
\* flight at its return, every later call returns that identical object
\* without a fetch until clearCache() is called.
C13_CachedUntilCleared ==
  /\ (lastEvent = "settle" /\ lastCall = "loaded") =>
       (cache.has /\ cache.obj = Len(heap) /\ heap[cache.obj].version = <<"1.0.0">>)
  /\ \A i, j \in 1..Len(loads) :
       ( /\ loads[i].outcome = "loaded" /\ loads[i].phase = "returned"
         /\ loads[i].aloneAtEnd
         /\ LaterCall(i, j) )
       => (loads[j].result = loads[i].result /\ ~loads[j].fetched)

\* a call has loaded the data alone and two later calls have returned
C13_Witness ==
  \E i, j, k \in 1..Len(loads) :
    /\ i < j /\ j < k
    /\ loads[i].outcome = "loaded" /\ loads[i].aloneAtEnd
    /\ LaterCall(i, j) /\ LaterCall(i, k)
    /\ loads[k].result = loads[i].result
    /\ fetchCalls = 1

\* C14: loadData() never rejects; when fetch rejects, the response is not
\* ok, the JSON cannot be read or validateData throws, it returns the
\* processed fallback dataset, whose metadata.version contains 'fallback'.
C14_NeverRejectsFallsBack ==
  \A i \in 1..Len(loads) :
    /\ ~loads[i].rejected
    /\ ( /\ loads[i].phase = "returned"
         /\ loads[i].cause \in {"reject", "httpError", "badJson", "invalid"} )
       => /\ loads[i].result \in 1..Len(heap)
          /\ heap[loads[i].result] = DmProcessData(FallbackData).data
          /\ Includes(heap[loads[i].result].version, <<"fallback">>)
          /\ heap[loads[i].result].totalVariables = 5

\* calls have returned after a rejected fetch and after a failed validation
C14_Witness ==
  \E i, j \in 1..Len(loads) :
    /\ loads[i].phase = "returned" /\ loads[i].cause = "reject"
    /\ loads[j].phase = "returned" /\ loads[j].cause = "invalid"
    /\ loads[j].outcome = "fallback" /\ loads[j].result # 0

\* the model filter and the search filter of filterData, as C15 states them
ModelFilterHolds(v, modelFilter) ==
  \/ modelFilter = All
  \/ modelFilter = EmptyString
  \/ \E k \in 1..Len(v.models) : v.models[k] = modelFilter

SearchFilterHolds(v, searchQuery) ==
  \/ Trim(searchQuery) = EmptyString
  \/ Includes(CreateSearchText(v), ToLowerCase(Trim(searchQuery)))

\* C15: filterData returns, in input order, exactly the variables that
\* satisfy the model filter and the search filter, and leaves the array it
\* was given unchanged.
C15_FilterDataSelects ==
  query.fn = "filterData" =>
    /\ query.argument = query.input
    /\ query.result =
         SelectSeq(query.input,
                   LAMBDA v : /\ ModelFilterHolds(v, query.modelFilter)
                              /\ SearchFilterHolds(v, query.searchQuery))

\* a call with a model filter and an untrimmed upper-case query has kept
\* some variables and dropped others
C15_Witness ==
  /\ query.fn = "filterData"
  /\ query.modelFilter = M1
  /\ query.searchQuery = <<" ", " ", " ", "M2", " ">>
  /\ Len(query.result) > 0
  /\ Len(query.result) < Len(query.input)

\* how often x occurs in the array
Occurrences(arr, x) == Cardinality({ i \in 1..Len(arr) : arr[i] = x })

\* C16: sortData leaves the array it was given unchanged and returns a
\* permutation of it, ordered by variable name for 'variable', by category
\* and then variable name for 'category', in the original order for an
\* unknown sortBy.
C16_SortDataPermutes ==
  query.fn = "sortData" =>
    /\ query.argument = query.input
    /\ Len(query.result) = Len(query.input)
    /\ \A x \in QueryPool :
         Occurrences(query.result, x) = Occurrences(query.input, x)
    /\ query.sortBy = "variable" =>
         \A i \in 1..(Len(query.result) - 1) :
           LocaleCompare(query.result[i].variable, query.result[i + 1].variable) <= 0
    /\ query.sortBy = "category" =>
         \A i \in 1..(Len(query.result) - 1) :
           \/ LocaleCompare(query.result[i].category, query.result[i + 1].category) < 0
           \/ /\ query.result[i].category = query.result[i + 1].category
              /\ LocaleCompare(query.result[i].variable,
                               query.result[i + 1].variable) <= 0
    /\ query.sortBy \notin KnownSortKeys => query.result = query.input

\* sortData has reordered an array by category
C16_Witness ==
  /\ query.fn = "sortData"
  /\ query.sortBy = "category"
  /\ Len(query.input) >= 3
  /\ query.result # query.input
  /\ query.argument = query.input

\* C17: whenever the modal is open and Escape is pressed outside an input
\* field, the modal eventually is closed (isOpen false, the element hidden)
\* unless show() is called again.
C17_EscapeEventuallyCloses ==
  \A n \in 0..MaxShows :
    (lastEvent = "escape" /\ modal.isOpen /\ modal.shows = n)
    ~> ( \/ (~modal.isOpen /\ modal.display = "none" /\ modal.ariaHidden)
         \/ modal.shows # n )

\* the timer of a close() that Escape started has closed the modal
C17_Witness ==
  /\ lastEvent = "closeTimer"
  /\ modal.lastClose = "escape"
  /\ modal.shows = 1
  /\ ~modal.isOpen
  /\ modal.display = "none"
  /\ modal.closeTimers = 0

\* C18: over any sequence of view toggles NetworkView.init runs at most
\* once for the application's NetworkView (one simulation is created).
\* The code violates it: every switch to the network view runs init again.
C18_InitRunsAtMostOnce == Len(sims) <= 1

\* C19: processData gives every category, variable and model node the same
\* initial position and radius in any two runs on the same variables, models,
\* width and height, whatever Math.random returns.
C19_DeterministicStart ==
  lastCall = "processData" =>
    \A rnd \in RandomDraws :
      LET again == BuildNodes(InputVariables, InputModels, width, height, rnd)
      IN /\ Len(again) = Len(nodes)
         /\ \A i \in 1..Len(nodes) :
              nodes[i].type \in {"category", "variable", "model"} =>
                /\ again[i].type = nodes[i].type
                /\ again[i].name = nodes[i].name
                /\ again[i].x = nodes[i].x
                /\ again[i].y = nodes[i].y
                /\ again[i].radius10 = nodes[i].radius10

\* a graph with all four node types has been built, and another run places
\* one of its source nodes elsewhere
C19_Witness ==
  /\ lastCall = "processData"
  /\ \A type \in {"category", "variable", "model", "source"} : NodeIndexes(type) # {}
  /\ \E rnd \in RandomDraws :
       LET again == BuildNodes(InputVariables, InputModels, width, height, rnd)
       IN \E i \in NodeIndexes("source") : again[i].x # nodes[i].x

\* the trimmed source names of the variables that get a node
ListedSourceNames ==
  UNION { { Trim(InputVariables[i].sources[j]) :
              j \in 1..Len(InputVariables[i].sources) } :
          i \in 1..Len(InputVariables) }
  \ { <<>>, VariousSources }

\* the entries of variable.sources that name the source
SourceEntries(variable, name) ==
  { j \in 1..Len(variable.sources) : Trim(variable.sources[j]) = name }

VariableSourceLinksBetween(variable, name) ==
  {l \in LinkIndexes("variable-source") :
     /\ \E n \in NodeIndexes("variable") :
          nodes[n].vid = variable.id /\ nodes[n].id = links[l].source
     /\ \E n \in NodeIndexes("source") :
          nodes[n].name = name /\ nodes[n].id = links[l].target}

\* C20: processData builds exactly one source node per distinct trimmed
\* source name of the variables other than '' and 'Various sources', and one
\* variable-source link for every source entry of a variable that names such
\* a node; 'Various sources' gets no node and no link.
C20_SourceNodesAndLinks ==
  lastCall = "processData" =>
    /\ \A name \in ListedSourceNames :
         Cardinality({ n \in NodeIndexes("source") : nodes[n].name = name }) = 1
    /\ \A n \in NodeIndexes("source") :
         /\ nodes[n].name \in ListedSourceNames
         /\ nodes[n].name # VariousSources
         /\ nodes[n].name # <<>>
    /\ \A l \in LinkIndexes("variable-source") :
         /\ \E n \in NodeIndexes("variable") : nodes[n].id = links[l].source
         /\ \E n \in NodeIndexes("source") : nodes[n].id = links[l].target
    /\ \A i \in 1..Len(InputVariables) : \A name \in ListedSourceNames :
         Cardinality(VariableSourceLinksBetween(InputVariables[i], name))
           = Cardinality(SourceEntries(InputVariables[i], name))

\* a catalog that lists 'Various sources', an empty source name and an
\* untrimmed name has been built into source nodes and links
C20_Witness ==
  /\ lastCall = "processData"
  /\ \E i \in 1..Len(InputVariables) :
       VariousSources \in Range(InputVariables[i].sources)
  /\ \E i \in 1..Len(InputVariables) :
       (<<" ">> \o Grace) \in Range(InputVariables[i].sources)
  /\ Cardinality(NodeIndexes("source")) = 2
  /\ Cardinality(LinkIndexes("variable-source")) >= 3

\* the distance and strength values an edge object can carry: those
\* processData and processSimpleData store
StoredDistances == {80, 100, 120, 150}
StoredStrengths10 == {2, 4, 6, 8}

\* C21: the distance and the strength the link force of setupSimulation
\* applies to an edge are those of the edge's type, whatever distance and
\* strength the edge object stores, and every category-variable edge gets a
\* strictly smaller distance and a strictly larger strength than every
\* variable-source edge.
C21_LinkForceByTypeOnly ==
  (lastCall = "init" /\ sims # <<>>) =>
    /\ \A i \in 1..Len(links) :
         \A distance \in StoredDistances, strength10 \in StoredStrengths10 :
           LET stored == [links[i] EXCEPT !.distance = distance,
                                          !.strength10 = strength10]
           IN /\ LinkDistance(stored) = LinkDistance(links[i])
              /\ LinkStrength10(stored) = LinkStrength10(links[i])
    /\ \A i, j \in 1..Len(links) :
         links[i].type = links[j].type =>
           /\ LinkDistance(links[i]) = LinkDistance(links[j])
           /\ LinkStrength10(links[i]) = LinkStrength10(links[j])
    /\ \A i \in LinkIndexes("category-variable") :
         \A j \in LinkIndexes("variable-source") :
           /\ LinkDistance(links[i]) < LinkDistance(links[j])
           /\ LinkStrength10(links[i]) > LinkStrength10(links[j])

\* init has set up a simulation over edges of both types, whose stored
\* distance and strength differ from what the force applies
C21_Witness ==
  /\ lastCall = "init"
  /\ sims # <<>>
  /\ \E i \in LinkIndexes("category-variable") :
       links[i].distance # LinkDistance(links[i])
  /\ \E j \in LinkIndexes("variable-source") :
       links[j].strength10 # LinkStrength10(links[j])

\* path p is directory dir or lies below it
IsInside(p, dir) == Len(p) >= Len(dir) /\ SubSeq(p, 1, Len(dir)) = dir

\* C22: whatever the request path, '..' segments included, the file
\* handleRequest serves or the directory it lists lies inside srcDir, and a
\* path that leads anywhere else gets the 404 response.
C22_ServesSrcDirOnly ==
  server.kind # "none" =>
    /\ server.kind \in {"file", "listing"} => IsInside(server.path, SrcDir)
    /\ ~IsInside(PathJoin(SrcDir, server.request), SrcDir) => server.status = 404

\* C23: after any interleaving of startAnimationLoop() calls,
\* stopAnimationLoop() calls and animation-frame callbacks at most one
\* self-rescheduling animate chain is alive: while the loop runs, at most one
\* animate callback waits for the next frame, so that frame calls render()
\* at most once.
C23_AtMostOneChain == animationRunning => pendingFrames <= 1

\* C24: after any sequence of init() calls on the network view at most one
\* of the force simulations it created is still running: a simulation that
\* is not the most recently created one has been stopped, so only the
\* latest one calls render() on its ticks.
C24_OnlyLatestSimulationRuns ==
  \A s \in 1..Len(sims) : sims[s] = "running" => s = Len(sims)

\* C25: the last of the show() and close() calls decides the final state of
\* the modal: when the last call was show(), also one made after a close()
\* whose 300 ms timer had not fired yet, then once every timer has fired the
\* modal is open (isOpen is true and the element is displayed).
C25_LastCallDecides ==
  (modal.lastOp = "show" /\ modal.openTimers = 0 /\ modal.closeTimers = 0) =>
    (modal.isOpen /\ modal.display = "flex")

\* the first loadData() call made after call i has returned
NextCallAfter(i) ==
  { j \in 1..Len(loads) :
      /\ i \in loads[j].doneAtStart
      /\ \A k \in 1..(j - 1) : i \notin loads[k].doneAtStart }

\* the cache holds 'mainData' only if a call's fetch succeeded and its data
\* passed validateData (and processData): the cached object is that call's
CacheOnlyFromLoaded ==
  cache.has => \E i \in Returned : /\ loads[i].outcome = "loaded"
                                   /\ loads[i].result = cache.obj

\* C26 as stated: the cache holds 'mainData' only if some fetch succeeded and
\* its data passed validateData, and the next loadData() call after one that
\* fell back fetches again.
C26_AsStated ==
  /\ CacheOnlyFromLoaded
  /\ \A i \in Returned :
       loads[i].outcome = "fallback" =>
         \A j \in NextCallAfter(i) : loads[j].fetched

\* after a fallback the next call fetches again, or returns the object an
\* overlapping call's successful fetch has cached
NextCallFetchesOrHits ==
  \A i \in Returned :
    loads[i].outcome = "fallback" =>
      \A j \in NextCallAfter(i) :
        \/ loads[j].fetched
        \/ \E k \in loads[j].doneAtStart :
             /\ k # i
             /\ loads[k].outcome = "loaded"
             /\ loads[k].fetched
             /\ loads[k].result = loads[j].result

\* C26 (amended): in every reachable state the cache holds 'mainData' only if
\* some fetch succeeded and its data passed validateData; a loadData() call
\* that falls back leaves the cache unchanged, so the next loadData() call
\* fetches again unless an overlapping call's successful fetch has filled the
\* cache, in which case it returns that call's cached object.
C26_CacheOnlyFromLoaded ==
  [][/\ CacheOnlyFromLoaded'
     /\ (lastEvent' = "settle" /\ lastCall' = "fallback") => cache' = cache
     /\ NextCallFetchesOrHits']_vars

\* a call fell back with the cache left empty, the next call fetched again,
\* succeeded and its object is what the cache holds
C26_Witness ==
  /\ cache.has
  /\ \E i \in Returned :
       /\ loads[i].outcome = "fallback"
       /\ \E j \in NextCallAfter(i) :
            /\ loads[j].fetched
            /\ loads[j].outcome = "loaded"
            /\ cache.obj = loads[j].result

\* the pairs of loadData() calls that overlapped (the second started before
\* the fetch of the first had resolved), both fetched and both succeeded
OverlappingLoaded ==
  { p \in Returned \X Returned :
      /\ p[1] < p[2]
      /\ p[1] \notin loads[p[2]].doneAtStart
      /\ loads[p[1]].fetched /\ loads[p[2]].fetched
      /\ loads[p[1]].outcome = "loaded" /\ loads[p[2]].outcome = "loaded" }

\* C27 as stated: when two loadData() calls overlap and the fetches succeed,
\* fetch is invoked only once and both calls return the same object.
C27_AsStated ==
  \A p \in OverlappingLoaded :
    /\ fetchCalls = 1
    /\ loads[p[1]].result = loads[p[2]].result

\* C27 (amended): when two loadData() calls overlap and the fetches succeed,
\* fetch is invoked once by each call and the calls return two different
\* objects, each processed from its own response.
C27_EachCallFetches ==
  \A p \in OverlappingLoaded :
    /\ fetchCalls >= 2
    /\ loads[p[1]].result # loads[p[2]].result
    /\ loads[p[1]].result \in 1..Len(heap)
    /\ loads[p[2]].result \in 1..Len(heap)

\* two overlapping calls have both returned what they fetched, and nothing
\* else has been called
C27_Witness ==
  /\ Len(loads) = 2
  /\ clears = 0
  /\ <<1, 2>> \in OverlappingLoaded

\* what filterData returns for the current filter and search text
CurrentSelection == FilterData(data.variables, currentFilter, currentSearch)

\* C28: after any sequence of search input, clear-search, filter-button,
\* model-card, model-tag, network-node-click and table-sort events,
\* filteredData contains exactly the variables that
\* filterData(data.variables, currentFilter, currentSearch) returns, possibly
\* in a different order.
C28_FilteredDataIsSelection ==
  /\ Len(filteredData.items) = Len(CurrentSelection)
  /\ \A i \in 1..Len(data.variables) :
       Occurrences(filteredData.items, data.variables[i])
         = Occurrences(CurrentSelection, data.variables[i])
  /\ Range(filteredData.items) \subseteq Range(data.variables)

\* a table sort has put a searched and filtered selection of two variables
\* into another order than filterData returns them in
C28_Witness ==
  /\ lastEvent = "sort"
  /\ currentFilter = M1
  /\ currentSearch = <<"grace">>
  /\ Len(filteredData.items) = 2
  /\ filteredData.items # CurrentSelection

\* the 'selected' class of every card matches this.currentFilter
CardsMatchFilter ==
  \A model \in DOMAIN cards :
    cards[model] = (currentFilter = All \/ model = currentFilter)

\* C29: after every event that changes currentFilter (filter button, model
\* card, model tag, or a click on a model node in the network view) each
\* model card is marked selected exactly when currentFilter is 'all' or
\* equals the card's model.
C29_CardsFollowFilter ==
  [][currentFilter' # currentFilter => CardsMatchFilter']_vars

====
